---- MODULE Spec2Model ----
(***************************************************************************)
(* pkgbridge: the orchestration pipeline of src/src/cli.rs (selection,     *)
(* install, export, snapshot diffing) with the helpers of distro.rs it     *)
(* calls.  Every external process (distrobox, distrobox-export, the shell  *)
(* commands run inside a container, the host file system) is an            *)
(* environment whose outcome is chosen with \E where the code looks at it. *)
(*                                                                         *)
(* One command runs per behaviour.  The specifications are                 *)
(*   SpecExport   `pkgbridge export`            (export_pkg, export_items) *)
(*   SpecPost     `pkgbridge pm post-transaction`   (pm_post_transaction)  *)
(*   SpecSelect   the Container Selector            (select_or_create)     *)
(*   SpecInstall  `pkgbridge install` / `open`      (install_like)         *)
(*   SpecReexport `pkgbridge export` run twice      (export_pkg)           *)
(*   SpecUninstall `pkgbridge uninstall`            (unexport_items)       *)
(*   SpecList     `pkgbridge list`                  (discover_boxes)       *)
(*   SpecDetect   the Format Detector        (detect_package_format)       *)
(***************************************************************************)
EXTENDS Integers, Sequences, FiniteSets, TLC

VARIABLES
    pc,         \* position of the running command
    result,     \* what the command returned: "running", "ok" or "err"
    errKind,    \* which error it returned ("" while none)
    cli,        \* the parsed command line (struct Cli)
    scanned,    \* what the last package scan returned: [bins, apps]
    box,        \* the container export_items works on (box_name)
    hostBin,    \* host binaries directory: file name -> content
    hostApps,   \* host applications directory: file name -> content
    caller,     \* who called export_items: "export_pkg", "install_like", "post"
    binsQ,      \* export_items: binaries still to process
    appsQ,      \* export_items: desktop entries still to process
    batch,      \* export_items: its arguments [bins, apps]
    exlog,      \* export_items: one record per item it attempted, in order
    exRes,      \* export_items: "none" while running/not called, "ok", "err"
    supports,   \* unexport_items: what dbe_supports_container_flag() returned
    snapFile,   \* the container's snapshot file: NoFile or its lines
    inventory,  \* the lines the in-container inventory query prints
    todoNew,    \* pm_post_transaction: new_pkgs not yet exported
    todoUpg,    \* pm_post_transaction: upgraded not yet exported
    exportCalls,\* pm_post_transaction: packages export_items was called for, in order
    hostBin0,   \* the host binaries directory when the command started
    hostApps0,  \* the host applications directory when the command started
    snap0,      \* the snapshot file when the command started
    prevRun,    \* the previous export command of this behaviour, if there was one
    fmt,        \* the detected PackageFormat: "deb" or "rpm"
    pkgFile,    \* the package file given on the command line
    tty,        \* stdin and stdout are terminals
    boxes,      \* the discovered containers, each with what classifying it yields
    sel,        \* what select_or_create returned
    trace,      \* install_like: the external calls made so far, in order
    errDetails, \* install_like: the details of the InstallFailure error
    pkgInstalled, \* an install command completed successfully in the container
    osRelease,  \* classify_box_family: how entering the container went and what it printed
    boxFamily,  \* classify_box_family: what it returned
    files,      \* the persisted files: config.toml and the container's snapshot
    procs,      \* two concurrent invocations: [op, pc, buf, res] each
    lastWrite,  \* per file: who completed a write to it, and what was written last
    listing,    \* parse_boxes_plain: the rows of the listing it is given
    parsed,     \* parse_boxes_plain: the records it returned
    shEnv,      \* the container an install command runs in: tools present, steps that fail
    shRoot,     \* what running the root install command gave: [trace, ok]
    shUser,     \* what running the user install command gave: [trace, ok, inner]
    shimRun,    \* a run of a generated shim: which shim it is and its first argument
    shimTrace,  \* the commands the shim has run so far, in order, with their exit status
    shimExit,   \* the exit status of the shim (-1 while it runs)
    binDir,     \* generate_shims: the host bin directory, file name -> content
    binDir0,    \* the host bin directory when generate_shims started
    whichCmd,   \* what which() finds for each manager: none, a path outside or inside the bin directory
    pmDefaults, \* Config.pm_defaults, family key -> container
    genQ,       \* generate_shims: the shim-writing calls still to make
    midBin,     \* the host binaries directory when the first of two commands ended
    midApps,    \* the host applications directory when the first of two commands ended
    midBatch,   \* the items the first of two commands was given
    runs,       \* two shim runs on one container: each run's position and what it holds
    boxPkgs,    \* the packages installed in the container, name -> version
    boxSnap,    \* the container's snapshot file
    handed,     \* the packages handed to the Export Engine so far
    fresh,      \* the packages the transactions newly installed
    overlapped, \* a run started while the other was under way
    snapLog     \* what each write of pm snapshot did to the snapshot file

ctlVars == <<pc, result, errKind>>
exportVars == <<box, hostBin, hostApps, caller, binsQ, appsQ, batch, exlog, exRes, supports>>
postVars == <<snapFile, inventory, todoNew, todoUpg, exportCalls>>
ghostVars == <<hostBin0, hostApps0, snap0, prevRun>>
selVars == <<fmt, pkgFile, tty, boxes, sel>>
instVars == <<trace, errDetails, pkgInstalled>>
\* the variables of the commands and helpers modelled further down
clsVars == <<osRelease, boxFamily>>
cfgVars == <<files, procs, lastWrite>>
parseVars == <<listing, parsed>>
shVars == <<shEnv, shRoot, shUser>>
shimVars == <<shimRun, shimTrace, shimExit>>
genVars == <<binDir, binDir0, whichCmd, pmDefaults, genQ>>
midVars == <<midBin, midApps, midBatch>>
raceVars == <<runs, boxPkgs, boxSnap, handed, fresh, overlapped, snapLog>>
laterVars == <<clsVars, cfgVars, parseVars, shVars, shimVars, genVars, midVars, raceVars>>
baseVars == <<cli, scanned, exportVars, postVars, ghostVars, selVars, instVars>>
\* all variables but those of one later group
exceptCls == <<baseVars, cfgVars, parseVars, shVars, shimVars, genVars, midVars, raceVars>>
exceptCfg == <<baseVars, clsVars, parseVars, shVars, shimVars, genVars, midVars, raceVars>>
exceptParse == <<baseVars, clsVars, cfgVars, shVars, shimVars, genVars, midVars, raceVars>>
exceptShell == <<baseVars, clsVars, cfgVars, parseVars, shimVars, genVars, midVars, raceVars>>
exceptShim == <<baseVars, clsVars, cfgVars, parseVars, shVars, genVars, midVars, raceVars>>
exceptGenerate == <<baseVars, clsVars, cfgVars, parseVars, shVars, shimVars, midVars, raceVars>>
exceptMid == <<baseVars, clsVars, cfgVars, parseVars, shVars, shimVars, genVars, raceVars>>
exceptRace == <<baseVars, clsVars, cfgVars, parseVars, shVars, shimVars, genVars, midVars>>
vars == <<ctlVars, cli, scanned, exportVars, postVars, ghostVars, selVars, instVars, laterVars>>

---------------------------------------------------------------------------
(* Bounds and small input sets *)

MaxBins == 2        \* longest binary list a scan yields
MaxCliBin == 1      \* longest --bin list

NoneV == "<none>"   \* Option::None

\* File names are token sequences: <<"foo">> is foo, <<"foo","c1">> is foo-c1.
\* BinNames lists the names a package may ship, in the order sort() gives.
BinNames == << <<"bar">>, <<"foo">>, <<"foo", "c1">> >>
BinNameSet == {BinNames[i] : i \in 1..Len(BinNames)}
AppNames == << <<"app">> >>
AppNameSet == {AppNames[i] : i \in 1..Len(AppNames)}
BoxName == "c1"

\* Sorted, duplicate-free lists over a sorted universe u (bins.sort(); bins.dedup()).
RECURSIVE SubSeqOf(_, _)
SubSeqOf(u, S) ==
    IF u = <<>> THEN <<>>
    ELSE IF Head(u) \in S THEN <<Head(u)>> \o SubSeqOf(Tail(u), S)
         ELSE SubSeqOf(Tail(u), S)
SortedLists(u, max) ==
    {SubSeqOf(u, S) : S \in {T \in SUBSET {u[i] : i \in 1..Len(u)} : Cardinality(T) <= max}}
\* Lists in any order, without repetition, as a caller may type them.
DistinctSeqs(S, max) ==
    UNION {{q \in [1..n -> S] : \A i, j \in 1..n : i # j => q[i] # q[j]} : n \in 0..max}

Range(q) == {q[i] : i \in 1..Len(q)}

---------------------------------------------------------------------------
(* Host file system *)

Put(fs, name, content) ==
    [n \in (DOMAIN fs) \cup {name} |-> IF n = name THEN content ELSE fs[n]]
Exists(fs, name) == name \in DOMAIN fs

\* A file that was in the directory before the tool ran.
Foreign == [kind |-> "foreign", box |-> "-", cmd |-> <<>>]
ForeignApp == [kind |-> "foreign", box |-> "-", lines |-> <<>>]

\* format!("#!/usr/bin/env sh\nexec distrobox enter -n {} -- {} \"$@\"\n", box_name, cmd_name)
ShimContent(box_name, cmd_name) == [kind |-> "shim", box |-> box_name, cmd |-> cmd_name]
\* what distrobox-export --bin leaves in the binaries directory
HelperBin(box_name, b) == [kind |-> "helper", box |-> box_name, cmd |-> b]

\* format!("{}-{}", b, box_name)
AltBinName(b, box_name) == Append(b, box_name)
\* format!("{}.{}.desktop", base.trim_end_matches(".desktop"), box_name)
AltAppName(base, box_name) == Append(base, box_name)
\* distrobox-export --app writes <container>-<entry>.desktop
HelperAppName(base, box_name) == <<"helper", box_name>> \o base

\* std::fs::write, then metadata + set_permissions: each may fail.
WriteOutcomes == {"ok", "fail_write", "fail_chmod"}

\* write_simple_shim: the directory after the call.
write_simple_shim(fs, out_name, box_name, cmd_name, w) ==
    IF w = "fail_write" THEN fs ELSE Put(fs, out_name, ShimContent(box_name, cmd_name))

---------------------------------------------------------------------------
(* Desktop entries *)

\* A line of a desktop entry, as the words of what follows its key: key
\* "Exec" for a line starting with "Exec=".  EnterMarker is the text
\* "distrobox enter -n" that line.contains(..) looks for.
EnterMarker == "distrobox enter -n"
ExecLine(w) ==
    [key |-> "Exec",
     val |-> IF w = NoneV THEN <<"run">> ELSE <<EnterMarker, w, "--", "run">>]
OtherLine == [key |-> "Other", val |-> <<"text">>]
\* a line that is not an Exec line but holds the marker
OtherMarked == [key |-> "Other", val |-> <<EnterMarker, "c0", "--", "try">>]
DesktopContents ==
    { <<>>,
      <<OtherLine, ExecLine(NoneV)>>,
      <<ExecLine(NoneV), OtherMarked, ExecLine("c0")>> }

\* (mutant) every Exec line is prefixed
rewrite_line_always(line, box_name) ==
    IF line.key = "Exec"
    THEN [key |-> "Exec", val |-> <<EnterMarker, box_name, "--">> \o line.val]
    ELSE line
\* if line.starts_with("Exec=") && !line.contains("distrobox enter -n") {
\*     format!("Exec=distrobox enter -n {} -- {}", box_name, old) } else { line }
RewriteLine(line, box_name) ==
    IF line.key = "Exec" /\ EnterMarker \notin Range(line.val)
    THEN [key |-> "Exec", val |-> <<EnterMarker, box_name, "--">> \o line.val]
    ELSE line
RewriteExec(content, box_name) ==
    [i \in 1..Len(content) |-> RewriteLine(content[i], box_name)]

---------------------------------------------------------------------------
(* export_items *)

AfterItem(bq, aq) ==
    IF bq # <<>> THEN "exp_bin" ELSE IF aq # <<>> THEN "exp_app" ELSE "exp_ret"

\* The call: export_items(box_name, bins, apps), up to the first loop.
export_items_begin(who, box_name, bins, apps) ==
    /\ caller' = who
    /\ box' = box_name
    /\ exlog' = <<>>
    /\ batch' = [bins |-> bins, apps |-> apps]
    /\ binsQ' = bins
    /\ appsQ' = apps
    /\ exRes' = IF bins = <<>> /\ apps = <<>> THEN "ok" ELSE "none"
    /\ supports' = supports
    /\ pc' = AfterItem(bins, apps)

Logged(kind, item, how, ok) == [kind |-> kind, item |-> item, how |-> how, ok |-> ok]
\* The same for a colliding desktop entry, with what `cat` gave.
LoggedRead(base, c, content, ok) ==
    [kind |-> "app", item |-> base, how |-> "collision", ok |-> ok, cat |-> c, read |-> content]

\* The path the collision branch writes the shim to.
CollisionTarget(b, box_name) == AltBinName(b, box_name)

\* (mutant) the fallback shim goes to the container-suffixed name
fallback_target_suffixed(b, box_name) == AltBinName(b, box_name)
\* The path the fallback shim is written to: write_simple_shim(&bin_dir, b, box_name, b)
FallbackTarget(b, box_name) == b

\* One pass of `for b in bins`.
export_items_bin ==
    /\ pc = "exp_bin"
    /\ LET b == Head(binsQ)
           rest == Tail(binsQ)
       IN  IF Exists(hostBin, b)
           THEN \E w \in WriteOutcomes :
                  /\ hostBin' = write_simple_shim(hostBin, CollisionTarget(b, box), box, b, w)
                  /\ exlog' = Append(exlog, Logged("bin", b, "collision", w = "ok"))
                  /\ IF w = "ok"
                     THEN /\ binsQ' = rest
                          /\ exRes' = IF rest = <<>> /\ appsQ = <<>> THEN "ok" ELSE "none"
                          /\ pc' = AfterItem(rest, appsQ)
                     ELSE /\ binsQ' = rest
                          /\ exRes' = "err"
                          /\ pc' = "exp_ret"
           ELSE \E helper_ok \in BOOLEAN, w \in WriteOutcomes :
                  /\ helper_ok => w = "ok"
                  /\ hostBin' = IF helper_ok THEN Put(hostBin, b, HelperBin(box, b))
                                ELSE write_simple_shim(hostBin, FallbackTarget(b, box), box, b, w)
                  /\ exlog' = Append(exlog,
                        Logged("bin", b, IF helper_ok THEN "helper" ELSE "fallback",
                               helper_ok \/ w = "ok"))
                  /\ binsQ' = rest
                  /\ exRes' = IF rest = <<>> /\ appsQ = <<>> THEN "ok" ELSE "none"
                  /\ pc' = AfterItem(rest, appsQ)
    /\ UNCHANGED <<result, errKind, cli, laterVars, scanned, box, hostApps, caller, appsQ, batch, supports,
                   postVars, ghostVars, selVars, instVars>>

CatOutcomes == {"spawn_err", "printed"}

\* One pass of `for app in apps`.
export_items_app ==
    /\ pc = "exp_app"
    /\ LET base == Head(appsQ)
           rest == Tail(appsQ)
       IN  IF Exists(hostApps, base)
           THEN \E c \in CatOutcomes, content \in DesktopContents, w \in {"ok", "fail_write"} :
                  /\ c = "spawn_err" => (content = <<>> /\ w = "ok")
                  /\ LET written == c = "printed" /\ w = "ok"
                     IN  /\ hostApps' =
                               IF written
                               THEN Put(hostApps, AltAppName(base, box),
                                        [kind |-> "rewritten", box |-> box,
                                         lines |-> RewriteExec(content, box)])
                               ELSE hostApps
                         /\ exlog' = Append(exlog, LoggedRead(base, c, content, written))
                         /\ IF written
                            THEN /\ appsQ' = rest
                                 /\ exRes' = IF rest = <<>> THEN "ok" ELSE "none"
                                 /\ pc' = AfterItem(<<>>, rest)
                            ELSE /\ appsQ' = rest
                                 /\ exRes' = "err"
                                 /\ pc' = "exp_ret"
           ELSE \E helper_ok \in BOOLEAN :
                  /\ hostApps' = IF helper_ok
                                 THEN Put(hostApps, HelperAppName(base, box),
                                          [kind |-> "helper", box |-> box, lines |-> <<>>])
                                 ELSE hostApps
                  /\ exlog' = Append(exlog, Logged("app", base, "helper", helper_ok))
                  /\ appsQ' = rest
                  /\ exRes' = IF rest = <<>> THEN "ok" ELSE "none"
                  /\ pc' = AfterItem(<<>>, rest)
    /\ UNCHANGED <<result, errKind, cli, laterVars, scanned, box, hostBin, caller, binsQ, batch, supports,
                   postVars, ghostVars, selVars, instVars>>

---------------------------------------------------------------------------
(* Scanning a package for exportable artifacts *)

Scan(bins, apps) == [bins |-> bins, apps |-> apps]
NoScan == Scan(<<>>, <<>>)
\* What the listing of a package can name, in the order and as often as it
\* names it.
RawListings(order, max) == UNION {[1..n -> Range(order)] : n \in 0..max}
\* bins.sort(); bins.dedup();  order lists all names in the order sort() gives
sort_dedup(raw, order) == SubSeqOf(order, Range(raw))
\* What the listing of a package can yield after sort() and dedup().
ScanResults ==
    {Scan(sort_dedup(b, BinNames), sort_dedup(a, AppNames)) :
        b \in RawListings(BinNames, MaxBins), a \in RawListings(AppNames, 1)}

\* (mutant) the supplied list is added to the scanned one
resolved_extends_scan(scanned_list, given) == scanned_list \o given
\* if !cli.bin.is_empty() { bins = cli.bin.clone(); }
Resolved(scanned_list, given) == IF given # <<>> THEN given ELSE scanned_list

---------------------------------------------------------------------------
(* `pkgbridge export <pkg>` *)

export_pkg ==
    /\ pc = "export_pkg"
    /\ \E classify_ok \in BOOLEAN, scan_ok \in BOOLEAN, sc \in ScanResults :
         /\ (cli.container = NoneV \/ ~classify_ok \/ ~scan_ok) => sc = NoScan
         /\ IF cli.container = NoneV \/ ~classify_ok \/ ~scan_ok
            THEN /\ pc' = "done"
                 /\ result' = "err"
                 /\ errKind' = IF cli.container = NoneV THEN "ContainerRequired"
                               ELSE IF ~classify_ok THEN "ClassificationFailure"
                               ELSE "Scan"
                 /\ UNCHANGED <<scanned, exportVars>>
            ELSE IF cli.dry_run
            THEN /\ pc' = "done"
                 /\ result' = "ok"
                 /\ scanned' = sc
                 /\ UNCHANGED <<errKind, exportVars>>
            ELSE /\ scanned' = sc
                 /\ export_items_begin("export_pkg", cli.container,
                                       Resolved(sc.bins, cli.bin), Resolved(sc.apps, cli.app))
                 /\ UNCHANGED <<result, errKind, hostBin, hostApps>>
    /\ UNCHANGED <<cli, laterVars, postVars, ghostVars, selVars, instVars>>

\* export_items(&name, &bins, &apps) is export_pkg's return value.
export_pkg_return ==
    /\ pc = "exp_ret"
    /\ caller = "export_pkg"
    /\ pc' = "done"
    /\ result' = exRes
    /\ errKind' = IF exRes = "err" THEN "Export" ELSE errKind
    /\ UNCHANGED <<cli, laterVars, scanned, exportVars, postVars, ghostVars, selVars, instVars>>

\* struct Cli, the fields the pipeline reads.
CliDefault ==
    [container |-> NoneV, family |-> NoneV, create |-> FALSE, create_image |-> NoneV,
     dry_run |-> FALSE, no_export |-> FALSE, bin |-> <<>>, app |-> <<>>]

HostBinInits == {[n \in S |-> Foreign] : S \in SUBSET BinNameSet}
HostAppInits ==
    {[n \in S |-> ForeignApp] : S \in SUBSET (AppNameSet \cup {AltAppName(a, BoxName) : a \in AppNameSet})}

NoFile == [exists |-> FALSE, lines |-> <<>>]
File(lines) == [exists |-> TRUE, lines |-> lines]

\* No export command has completed yet in this behaviour.
NoRun == [ran |-> FALSE, result |-> "", log |-> <<>>]

ExportIdle ==
    /\ box = NoneV
    /\ caller = NoneV
    /\ binsQ = <<>>
    /\ appsQ = <<>>
    /\ batch = [bins |-> <<>>, apps |-> <<>>]
    /\ exlog = <<>>
    /\ exRes = "none"
    /\ supports = FALSE
    /\ scanned = NoScan
    /\ hostBin0 = hostBin
    /\ hostApps0 = hostApps
    /\ prevRun = NoRun

PostIdle ==
    /\ snapFile = NoFile
    /\ inventory = <<>>
    /\ todoNew = {}
    /\ todoUpg = {}
    /\ exportCalls = <<>>
    /\ snap0 = NoFile

\* Option<SelectedBox> before select_or_create ran
NoSel == [ok |-> FALSE, name |-> NoneV, family |-> NoneV, asked |-> FALSE,
          created |-> <<>>, err |-> "<not run>", classified |-> <<>>, actual |-> NoneV]

\* No package file is involved in the command.
NoPkgFile == [ext |-> <<>>, readable |-> FALSE, len |-> 0, lead |-> "other", token |-> -1]

SelectIdle ==
    /\ fmt = "deb"
    /\ tty = FALSE
    /\ boxes = <<>>
    /\ sel = NoSel
    /\ pkgFile = NoPkgFile

InstallIdle ==
    /\ trace = <<>>
    /\ errDetails = <<>>
    /\ pkgInstalled = FALSE

ClassifyIdle ==
    /\ osRelease = [status |-> "none", text |-> <<>>]
    /\ boxFamily = NoneV

ConfigIdle ==
    /\ files = [config |-> NoFile, snapshot |-> NoFile]
    /\ procs = <<>>
    /\ lastWrite = <<>>

ParseIdle ==
    /\ listing = <<>>
    /\ parsed = <<>>

ShellIdle ==
    /\ shEnv = <<>>
    /\ shRoot = <<>>
    /\ shUser = <<>>

ShimIdle ==
    /\ shimRun = <<>>
    /\ shimTrace = <<>>
    /\ shimExit = -1

GenerateIdle ==
    /\ binDir = <<>>
    /\ binDir0 = <<>>
    /\ whichCmd = <<>>
    /\ pmDefaults = <<>>
    /\ genQ = <<>>

MidIdle ==
    /\ midBin = <<>>
    /\ midApps = <<>>
    /\ midBatch = <<>>

RaceIdle ==
    /\ runs = <<>>
    /\ boxPkgs = <<>>
    /\ boxSnap = NoFile
    /\ handed = {}
    /\ fresh = {}
    /\ overlapped = FALSE
    /\ snapLog = <<>>

LaterIdle == ClassifyIdle /\ ConfigIdle /\ ParseIdle /\ ShellIdle /\ ShimIdle /\ GenerateIdle /\ MidIdle /\ RaceIdle

InitExport ==
    /\ LaterIdle
    /\ pc = "export_pkg"
    /\ result = "running"
    /\ errKind = ""
    /\ cli \in {[CliDefault EXCEPT !.container = c, !.dry_run = d, !.bin = b, !.app = a] :
                  c \in {NoneV, BoxName}, d \in BOOLEAN,
                  b \in DistinctSeqs(BinNameSet, MaxCliBin),
                  a \in DistinctSeqs(AppNameSet, 1)}
    /\ hostBin \in HostBinInits
    /\ hostApps \in HostAppInits
    /\ ExportIdle
    /\ PostIdle
    /\ SelectIdle
    /\ InstallIdle

NextExport ==
    \/ export_pkg
    \/ export_items_bin
    \/ export_items_app
    \/ export_pkg_return

SpecExport == InitExport /\ [][NextExport]_vars

---------------------------------------------------------------------------
(* `pkgbridge export <pkg>` invoked twice in succession *)

\* The same command line is run a second time, on the host directories the
\* first run left behind.
export_pkg_again ==
    /\ pc = "done"
    /\ ~prevRun.ran
    /\ prevRun' = [ran |-> TRUE, result |-> result, log |-> exlog]
    /\ pc' = "export_pkg"
    /\ result' = "running"
    /\ errKind' = ""
    /\ scanned' = NoScan
    /\ box' = NoneV
    /\ caller' = NoneV
    /\ binsQ' = <<>>
    /\ appsQ' = <<>>
    /\ batch' = [bins |-> <<>>, apps |-> <<>>]
    /\ exlog' = <<>>
    /\ exRes' = "none"
    /\ midBin' = hostBin
    /\ midApps' = hostApps
    /\ midBatch' = batch
    /\ UNCHANGED <<cli, clsVars, cfgVars, parseVars, shVars, shimVars, genVars, raceVars, hostBin, hostApps,
                   supports, postVars, hostBin0, hostApps0, snap0, selVars, instVars>>

InitReexport ==
    /\ LaterIdle
    /\ pc = "export_pkg"
    /\ result = "running"
    /\ errKind = ""
    /\ cli \in {[CliDefault EXCEPT !.container = BoxName, !.bin = <<b>>] : b \in BinNameSet}
    /\ hostBin \in HostBinInits
    /\ hostApps = [n \in {} |-> ForeignApp]
    /\ ExportIdle
    /\ PostIdle
    /\ SelectIdle
    /\ InstallIdle

NextReexport ==
    \/ export_pkg
    \/ export_items_bin
    \/ export_items_app
    \/ export_pkg_return
    \/ export_pkg_again

SpecReexport == InitReexport /\ [][NextReexport]_vars

---------------------------------------------------------------------------
(* Snapshot-Diff Engine: `pkgbridge pm post-transaction` *)

Pkgs == <<"A", "B", "C">>
PkgSet == Range(Pkgs)
Absent == "<absent>"
\* A line with no tab left after trim(): a name without a version.
NoVer == "<no version>"
\* What the inventory query may say about a package.
VerChoices(p) == IF p = "C" THEN {Absent, "1", NoVer} ELSE {Absent, "1", "2"}

Line(n, v) == [n |-> n, v |-> v]
RECURSIVE LinesOf(_, _)
LinesOf(order, f) ==
    IF order = <<>> THEN <<>>
    ELSE IF f[Head(order)] = Absent THEN LinesOf(Tail(order), f)
         ELSE <<Line(Head(order), f[Head(order)])>> \o LinesOf(Tail(order), f)
Listings == {LinesOf(Pkgs, f) : f \in {g \in [PkgSet -> {Absent, "1", "2", NoVer}] :
                                        \A p \in PkgSet : g[p] \in VerChoices(p)}}

\* The files of an installed package, as scan_installed_pkg finds them.
PkgFiles(p) ==
    IF p = "A" THEN Scan(<< <<"foo">> >>, <<>>)
    ELSE IF p = "B" THEN Scan(<< <<"bar">> >>, << <<"app">> >>)
    ELSE NoScan

\* before.lines().filter_map(|l| { let mut sp = l.splitn(2, '\t');
\*     Some((sp.next()?, sp.next().unwrap_or(""))) }).collect::<HashMap>()
RECURSIVE before_set(_)
before_set(lines) ==
    IF lines = <<>> THEN [n \in {} |-> ""]
    ELSE LET l == lines[Len(lines)]
             m == before_set(SubSeq(lines, 1, Len(lines) - 1))
         IN  [n \in (DOMAIN m) \cup {l.n} |->
                 IF n = l.n THEN (IF l.v = NoVer THEN "" ELSE l.v) ELSE m[n]]

\* if let (Some(n), Some(v)) = (sp.next(), sp.next()) { after_map.insert(n, v); }
RECURSIVE after_map(_)
after_map(lines) ==
    IF lines = <<>> THEN [n \in {} |-> ""]
    ELSE LET l == lines[Len(lines)]
             m == after_map(SubSeq(lines, 1, Len(lines) - 1))
         IN  IF l.v = NoVer THEN m
             ELSE [n \in (DOMAIN m) \cup {l.n} |-> IF n = l.n THEN l.v ELSE m[n]]

\* std::fs::read_to_string(snapshot_path).unwrap_or_default()
ReadSnapshot(file) == IF file.exists THEN file.lines ELSE <<>>

\* match before_set.get(name) { None => new_pkgs.push(name), ... }
new_pkgs(before, after) == {n \in DOMAIN after : n \notin DOMAIN before}
\* (mutant) the version test of the upgrade arm inverted
upgraded_same_version(before, after) ==
    {n \in DOMAIN after : n \in DOMAIN before /\ before[n] = after[n]}
\* Some(prev) if prev != ver => upgraded.push(name)
upgraded(before, after) == {n \in DOMAIN after : n \in DOMAIN before /\ before[n] # after[n]}

\* Up to `for pkg in pkgs`.
pm_post_transaction ==
    /\ pc = "post"
    /\ \E classify_ok \in BOOLEAN, query_ok \in BOOLEAN :
         IF cli.container = NoneV \/ ~classify_ok \/ ~query_ok
         THEN /\ pc' = "done"
              /\ result' = "err"
              /\ errKind' = IF cli.container = NoneV THEN "ContainerRequired"
                            ELSE IF ~classify_ok THEN "ClassificationFailure"
                            ELSE "Query"
              /\ UNCHANGED <<todoNew, todoUpg>>
         ELSE LET before == before_set(ReadSnapshot(snapFile))
                  after == after_map(inventory)
                  nw == new_pkgs(before, after)
                  up == upgraded(before, after)
              IN  /\ todoNew' = nw
                  /\ todoUpg' = up
                  /\ errKind' = errKind
                  /\ IF nw = {} /\ up = {}
                     THEN pc' = "done" /\ result' = "ok"
                     ELSE pc' = "post_loop" /\ result' = result
    /\ UNCHANGED <<cli, laterVars, scanned, exportVars, snapFile, inventory, exportCalls, ghostVars, selVars, instVars>>

\* One pass of `for pkg in pkgs`, up to the call of export_items: new_pkgs
\* come before upgraded, each in the map's iteration order (any order).
pm_post_transaction_pkg ==
    /\ pc = "post_loop"
    /\ todoNew \cup todoUpg # {}
    /\ \E pkg \in (IF todoNew # {} THEN todoNew ELSE todoUpg), scan_ok \in BOOLEAN :
         LET sc == IF scan_ok THEN PkgFiles(pkg) ELSE NoScan
         IN  /\ todoNew' = todoNew \ {pkg}
             /\ todoUpg' = IF todoNew # {} THEN todoUpg ELSE todoUpg \ {pkg}
             /\ exportCalls' = Append(exportCalls, pkg)
             /\ scanned' = sc
             /\ export_items_begin("post", cli.container, sc.bins, sc.apps)
    /\ UNCHANGED <<result, errKind, cli, laterVars, hostBin, hostApps, snapFile, inventory, ghostVars, selVars, instVars>>

\* let _ = export_items(...): whatever it returned, the loop goes on.
pm_post_transaction_export_return ==
    /\ pc = "exp_ret"
    /\ caller = "post"
    /\ pc' = "post_loop"
    /\ UNCHANGED <<result, errKind, cli, laterVars, scanned, exportVars, postVars, ghostVars, selVars, instVars>>

\* After the loop: std::fs::write(snapshot_path, after_list.join("\n"))?
pm_post_transaction_write ==
    /\ pc = "post_loop"
    /\ todoNew \cup todoUpg = {}
    /\ \E write_ok \in BOOLEAN :
         /\ snapFile' = IF write_ok THEN File(inventory) ELSE snapFile
         /\ result' = IF write_ok THEN "ok" ELSE "err"
         /\ errKind' = IF write_ok THEN errKind ELSE "SnapshotWrite"
    /\ pc' = "done"
    /\ UNCHANGED <<cli, laterVars, scanned, exportVars, inventory, todoNew, todoUpg, exportCalls, ghostVars, selVars, instVars>>

InitPost ==
    /\ LaterIdle
    /\ pc = "post"
    /\ result = "running"
    /\ errKind = ""
    /\ cli \in {[CliDefault EXCEPT !.container = c] : c \in {NoneV, BoxName}}
    /\ hostBin \in {[n \in S |-> Foreign] : S \in {{}, {<<"foo">>}}}
    /\ hostApps = [n \in {} |-> ForeignApp]
    /\ ExportIdle
    /\ snapFile \in {NoFile} \cup {File(l) : l \in Listings}
    /\ inventory \in Listings
    /\ todoNew = {}
    /\ todoUpg = {}
    /\ exportCalls = <<>>
    /\ snap0 = snapFile
    /\ SelectIdle
    /\ InstallIdle

NextPost ==
    \/ pm_post_transaction
    \/ pm_post_transaction_pkg
    \/ export_items_bin
    \/ export_items_app
    \/ pm_post_transaction_export_return
    \/ pm_post_transaction_write

SpecPost == InitPost /\ [][NextPost]_vars

---------------------------------------------------------------------------
(* Container Selector: select_or_create *)

MaxBoxes == 2       \* most containers discovery returns

Families == {"debian", "fedora", "opensuse", "arch"}
\* classify_box_family returned Err
ClassFail == "<unclassified>"
BoxNames == <<"b1", "b2", "b3", "debian-stable">>

BoxRec(name, fam) == [name |-> name, fam |-> fam]
\* Discovered lists: names in listing order, each with its classification.
BoxListsOver(names, fams, max) ==
    UNION {{[i \in 1..Len(ns) |-> BoxRec(ns[i], f[i])] : f \in [1..Len(ns) -> fams]} :
           ns \in SortedLists(names, max)}
BoxLists == BoxListsOver(BoxNames, Families \cup {ClassFail}, MaxBoxes)

default_box_for_family(f) ==
    IF f = "debian" THEN [name |-> "debian-stable", image |-> "docker.io/library/debian:stable"]
    ELSE IF f = "fedora"
    THEN [name |-> "fedora-latest", image |-> "registry.fedoraproject.org/fedora:latest"]
    ELSE IF f = "opensuse"
    THEN [name |-> "opensuse-tumbleweed",
          image |-> "registry.opensuse.org/opensuse/tumbleweed:latest"]
    ELSE [name |-> "arch", image |-> "docker.io/library/archlinux:latest"]

\* (mutant) OpenSuse is listed before Fedora for an rpm
target_families_suse_first(f, c) ==
    IF c.family # NoneV THEN <<c.family>>
    ELSE IF f = "deb" THEN <<"debian">> ELSE <<"opensuse", "fedora">>
\* let target_families = if let Some(fa) = cli.family { vec![to_family(fa)] } else { ... }
target_families(f, c) ==
    IF c.family # NoneV THEN <<c.family>>
    ELSE IF f = "deb" THEN <<"debian">> ELSE <<"fedora", "opensuse">>

\* (mutant) a container that cannot be classified is kept as a match
matches_keep_unclassified(bxs, tf) ==
    SelectSeq(bxs, LAMBDA b : b.fam = ClassFail \/ b.fam \in Range(tf))
\* if let Ok(fam) = classify_box_family(&b.name) { if target_families.contains(&fam) { push } }
matches(bxs, tf) ==
    SelectSeq(bxs, LAMBDA b : b.fam # ClassFail /\ b.fam \in Range(tf))

\* A returned SelectedBox { name, family }, with what the call did on the way:
\*   asked       standard input was read
\*   created     the distro::create_box calls made
\*   classified  the names passed to distro::classify_box_family, in order
\*   actual      what classifying the returned container yields when it is returned
SelOk(name, family, asked, created, classified, actual) ==
    [ok |-> TRUE, name |-> name, family |-> family, asked |-> asked,
     created |-> created, err |-> "", classified |-> classified, actual |-> actual]
SelErr(err, asked, created, classified) ==
    [ok |-> FALSE, name |-> NoneV, family |-> NoneV, asked |-> asked,
     created |-> created, err |-> err, classified |-> classified, actual |-> NoneV]
CreateCall(name, image, ok) == [name |-> name, image |-> image, ok |-> ok]

NamesOf(bxs) == [i \in 1..Len(bxs) |-> bxs[i].name]

\* distro::create_box runs `distrobox create --name <name> --image <image> --yes`.
\* What the container of that name classifies as afterwards: a container that
\* already had the name is left as it was; a new one is whatever its image is,
\* the family's own for the default image, anything for an overridden image.
ClassAfterCreate(bxs, name, image, fam) ==
    IF \E i \in 1..Len(bxs) : bxs[i].name = name
    THEN {bxs[CHOOSE i \in 1..Len(bxs) : bxs[i].name = name].fam}
    ELSE IF image = default_box_for_family(fam).image THEN {fam}
    ELSE Families \cup {ClassFail}

\* distro::create_box(default_name, &chosen_image)?; return Ok(SelectedBox {..})
create_and_return(bxs, fam, c, asked) ==
    LET d == default_box_for_family(fam)
        chosen_image == IF c.create_image # NoneV THEN c.create_image ELSE d.image
    IN  {SelOk(d.name, fam, asked, <<CreateCall(d.name, chosen_image, TRUE)>>, NamesOf(bxs), act) :
            act \in ClassAfterCreate(bxs, d.name, chosen_image, fam)}
        \cup {SelErr("CreateFailed", asked, <<CreateCall(d.name, chosen_image, FALSE)>>,
                     NamesOf(bxs))}

\* "None found: create interactively or via --create", cli.rs:386-409.
\* asked: standard input was already read by the numbered prompt.
create_or_fail(bxs, tf, c, t, asked) ==
    IF c.create THEN create_and_return(bxs, tf[1], c, asked)
    ELSE IF t
    THEN create_and_return(bxs, tf[1], c, TRUE)
         \cup {SelErr("NoMatchFound", TRUE, <<>>, NamesOf(bxs))}
    ELSE {SelErr("NoMatchFound", asked, <<>>, NamesOf(bxs))}

\* (mutant) a requested container that cannot be classified is taken as Debian
select_explicit_unclassified_ok(bxs, c) ==
    IF ~\E i \in 1..Len(bxs) : bxs[i].name = c.container
    THEN {SelErr("NotFound", FALSE, <<>>, <<>>)}
    ELSE LET b == bxs[CHOOSE i \in 1..Len(bxs) : bxs[i].name = c.container]
         IN  {SelOk(b.name, IF b.fam = ClassFail THEN "debian" ELSE b.fam, FALSE, <<>>,
                    <<b.name>>, b.fam)}
\* if let Some(ref name) = cli.container { ... }, cli.rs:339-345
select_explicit(bxs, c) ==
    IF ~\E i \in 1..Len(bxs) : bxs[i].name = c.container
    THEN {SelErr("NotFound", FALSE, <<>>, <<>>)}
    ELSE LET b == bxs[CHOOSE i \in 1..Len(bxs) : bxs[i].name = c.container]
         IN  IF b.fam = ClassFail
             THEN {SelErr("ClassificationFailure", FALSE, <<>>, <<b.name>>)}
             ELSE {SelOk(b.name, b.fam, FALSE, <<>>, <<b.name>>, b.fam)}

\* select_or_create: every result it can return, over what is typed at its
\* prompts and over the outcome of distrobox create.
select_or_create(bxs, f, c, t) ==
    IF c.container # NoneV
    THEN select_explicit(bxs, c)
    ELSE LET tf == target_families(f, c)
             m == matches(bxs, tf)
         IN  IF Len(m) = 1 THEN {SelOk(m[1].name, m[1].fam, FALSE, <<>>, NamesOf(bxs), m[1].fam)}
             ELSE IF Len(m) > 1 /\ t
             THEN {SelOk(m[choice].name, m[choice].fam, TRUE, <<>>, NamesOf(bxs), m[choice].fam) :
                      choice \in 1..Len(m)}
                  \cup create_or_fail(bxs, tf, c, t, TRUE)
             ELSE create_or_fail(bxs, tf, c, t, FALSE)

\* One call of select_or_create on the inputs of the initial state.
select ==
    /\ pc = "select"
    /\ \E o \in select_or_create(boxes, fmt, cli, tty) :
         /\ sel' = o
         /\ result' = IF o.ok THEN "ok" ELSE "err"
         /\ errKind' = o.err
    /\ pc' = "done"
    /\ UNCHANGED <<cli, laterVars, scanned, exportVars, postVars, ghostVars, fmt, pkgFile, tty, boxes, instVars>>

InitSelect ==
    /\ LaterIdle
    /\ pc = "select"
    /\ result = "running"
    /\ errKind = ""
    /\ cli \in {[CliDefault EXCEPT !.container = c, !.family = f, !.create = cr,
                                   !.create_image = im] :
                  c \in {NoneV, "b1", "b3"}, f \in {NoneV} \cup Families,
                  cr \in BOOLEAN, im \in {NoneV, "img"}}
    /\ fmt \in {"deb", "rpm"}
    /\ tty \in BOOLEAN
    /\ boxes \in BoxLists
    /\ sel = NoSel
    /\ pkgFile = NoPkgFile
    /\ hostBin = [n \in {} |-> Foreign]
    /\ hostApps = [n \in {} |-> ForeignApp]
    /\ ExportIdle
    /\ PostIdle
    /\ InstallIdle

NextSelect == select

SpecSelect == InitSelect /\ [][NextSelect]_vars

---------------------------------------------------------------------------
(* Install Pipeline: install_like *)

MaxSize == 1        \* largest local file size, in bytes

\* The install commands, by what tells them apart: the identity they are
\* entered with and whether sudo is given -n (it then never asks for a password).
build_install_cmd_root(f) == [variant |-> "root", fmt |-> f, sudo_n |-> FALSE]
build_install_cmd_user(f) == [variant |-> "user", fmt |-> f, sudo_n |-> FALSE]
build_install_cmd_user_noninteractive(f) == [variant |-> "user", fmt |-> f, sudo_n |-> TRUE]

\* The command asks for a password when sudo needs one and was not given -n.
CanPrompt(cmd) == cmd.variant = "user" /\ ~cmd.sudo_n

\* distro::enter_status / enter_status_inherit: Ok(true), Ok(false), Err
StatusOutcomes == {"ok", "fail", "err"}

Failed(kind) ==
    /\ pc' = "done"
    /\ result' = "err"
    /\ errKind' = kind

\* Up to and including the --dry-run return, cli.rs:143-165.  The password
\* preseed of cli.rs:161-165 discards its result and touches nothing modelled.
install_like ==
    /\ pc = "install"
    /\ \E exists \in BOOLEAN, detect_ok \in BOOLEAN :
         IF ~exists \/ ~detect_ok
         THEN /\ Failed(IF ~exists THEN "NotFound" ELSE "FormatUnknown")
              /\ sel' = sel
         ELSE \E o \in select_or_create(boxes, fmt, cli, tty) :
                /\ sel' = o
                /\ IF ~o.ok THEN Failed("Selection")
                   ELSE IF cli.dry_run
                   THEN pc' = "done" /\ result' = "ok" /\ errKind' = errKind
                   ELSE pc' = "copy" /\ result' = result /\ errKind' = errKind
    /\ UNCHANGED <<cli, laterVars, scanned, exportVars, postVars, ghostVars, fmt, pkgFile, tty, boxes, instVars>>

\* distro::copy_into_box(&selected.name, &path)?
install_copy ==
    /\ pc = "copy"
    /\ \E ok \in BOOLEAN :
         /\ trace' = Append(trace, [ev |-> "copy", ok |-> ok])
         /\ IF ok THEN pc' = "verify" /\ result' = result /\ errKind' = errKind
            ELSE Failed("Transfer")
    /\ UNCHANGED <<cli, laterVars, scanned, exportVars, postVars, ghostVars, selVars, errDetails,
                   pkgInstalled>>

\* What the size query of cli.rs:172-177 gives: it could not be run, it exited
\* non-zero, it printed no number, or it printed the number n.
SizeReplies ==
    {[kind |-> k, n |-> 0] : k \in {"spawn_err", "nonzero", "no_number"}}
    \cup {[kind |-> "number", n |-> n] : n \in 0..(MaxSize + 1)}

\* (mutant) only a short copy is detected
size_mismatch_truncated(n, host_sz) == n < host_sz
\* if n != host_sz { return Err(..) }
size_mismatch(n, host_sz) == n # host_sz

\* The copy-size check, cli.rs:168-184.
install_verify ==
    /\ pc = "verify"
    /\ \E meta_ok \in BOOLEAN, host_sz \in 0..MaxSize, reply \in SizeReplies :
         /\ ~meta_ok => (host_sz = 0 /\ reply = [kind |-> "spawn_err", n |-> 0])
         /\ trace' = IF meta_ok
                     THEN Append(trace, [ev |-> "size", host_sz |-> host_sz, reply |-> reply])
                     ELSE trace
         /\ IF meta_ok /\ reply.kind = "number" /\ size_mismatch(reply.n, host_sz)
            THEN Failed("IntegrityMismatch")
            ELSE pc' = "prescan" /\ result' = result /\ errKind' = errKind
    /\ UNCHANGED <<cli, laterVars, scanned, exportVars, postVars, ghostVars, selVars, errDetails,
                   pkgInstalled>>

\* prescan_package(&selected.name, &fmt, &in_box_path)?
install_prescan ==
    /\ pc = "prescan"
    /\ \E ok \in BOOLEAN, p \in PkgSet :
         /\ ~ok => p = "A"
         /\ trace' = Append(trace, [ev |-> "prescan", ok |-> ok])
         /\ IF ok
            THEN /\ scanned' = PkgFiles(p)
                 /\ pc' = "exec1" /\ result' = result /\ errKind' = errKind
            ELSE /\ scanned' = scanned
                 /\ Failed("Prescan")
    /\ UNCHANGED <<cli, laterVars, exportVars, postVars, ghostVars, selVars, errDetails, pkgInstalled>>

InstallEvent(cmd, mode, res, prompted) ==
    [ev |-> "install", cmd |-> cmd, mode |-> mode, res |-> res, prompted |-> prompted]

\* The command and the way of running it, for the first and second attempt.
FirstAttempt(t, f) ==
    IF t THEN [cmd |-> build_install_cmd_user(f), mode |-> "inherit"]
    ELSE [cmd |-> build_install_cmd_root(f), mode |-> "capture"]
SecondAttempt(t, f) ==
    IF t THEN [cmd |-> build_install_cmd_root(f), mode |-> "inherit"]
    ELSE [cmd |-> build_install_cmd_user(f), mode |-> "capture"]

\* (mutant) an attempt that could not be started counts as a success
attempt_ok_unless_failed(res) == res # "fail"
\* Ok(true) => true, _ => false
attempt_ok(res) == res = "ok"

\* distro::enter_status(name, cmd, as_root): the command runs with its output
\* captured; it may ask for a password on the terminal if it can.
enter_status(cmd) ==
    {[res |-> r, prompted |-> p] : r \in StatusOutcomes, p \in BOOLEAN}
      \ {o \in [res : StatusOutcomes, prompted : BOOLEAN] :
            o.prompted /\ (~CanPrompt(cmd) \/ o.res = "err")}

\* distro::enter_status_inherit(name, cmd, as_root): the same with the
\* terminal handed to the command, so that its prompts reach the human.
enter_status_inherit(cmd) == enter_status(cmd)

\* One attempt, and where the pipeline goes after it.
Attempt(a, okPc, failPc) ==
    \E o \in (IF a.mode = "inherit" THEN enter_status_inherit(a.cmd) ELSE enter_status(a.cmd)) :
       /\ trace' = Append(trace, InstallEvent(a.cmd, a.mode, o.res, o.prompted))
       /\ pkgInstalled' = (pkgInstalled \/ o.res = "ok")
       /\ pc' = IF attempt_ok(o.res) THEN okPc ELSE failPc

\* First attempt, cli.rs:198-201 and 216.
install_exec1 ==
    /\ pc = "exec1"
    /\ Attempt(FirstAttempt(tty, fmt), "post_install", "exec2")
    /\ UNCHANGED <<result, errKind, cli, laterVars, scanned, exportVars, postVars, ghostVars, selVars,
                   errDetails>>

\* Second attempt, cli.rs:203-211 and 218-224.
install_exec2 ==
    /\ pc = "exec2"
    /\ Attempt(SecondAttempt(tty, fmt), "post_install", "diag")
    /\ UNCHANGED <<result, errKind, cli, laterVars, scanned, exportVars, postVars, ghostVars, selVars,
                   errDetails>>

\* enter_capture(name, "<cmd> 2>&1 || true", as_root): Err, or Ok with the
\* output; the command may have succeeded this time.
DiagRuns ==
    {[ran |-> FALSE, installed |-> FALSE]}
    \cup {[ran |-> TRUE, installed |-> i] : i \in BOOLEAN}
\* The output of a re-run, named after the command that printed it.
DiagOutput(cmd, d) == IF d.ran THEN <<cmd.variant>> ELSE <<>>
DiagEvent(cmd, d) ==
    [ev |-> "diag", cmd |-> cmd, mode |-> "capture", ran |-> d.ran,
     out |-> DiagOutput(cmd, d), installed |-> d.installed]

RECURSIVE Concat(_)
Concat(qs) == IF qs = <<>> THEN <<>> ELSE Head(qs) \o Concat(Tail(qs))

\* (mutant) only the root command is re-run
diag_commands_root_only(f) == <<build_install_cmd_root(f)>>
\* The commands re-run for diagnostics, in order.
diag_commands(f) == <<build_install_cmd_root(f), build_install_cmd_user(f)>>

\* if !ok { ... return Err(..) }, cli.rs:228-237.
install_diag ==
    /\ pc = "diag"
    /\ LET cmds == diag_commands(fmt)
       IN  \E d \in [1..Len(cmds) -> DiagRuns] :
             /\ trace' = trace \o [i \in 1..Len(cmds) |-> DiagEvent(cmds[i], d[i])]
             /\ errDetails' = Concat([i \in 1..Len(cmds) |-> DiagOutput(cmds[i], d[i])])
             /\ pkgInstalled' = (pkgInstalled \/ \E i \in 1..Len(cmds) : d[i].installed)
    /\ Failed("InstallFailure")
    /\ UNCHANGED <<cli, laterVars, scanned, exportVars, postVars, ghostVars, selVars>>

\* "Install completed." and the call of export_items, cli.rs:238-244.
install_post ==
    /\ pc = "post_install"
    /\ IF cli.no_export
       THEN /\ pc' = "done"
            /\ result' = "ok"
            /\ UNCHANGED <<exportVars>>
       ELSE /\ export_items_begin("install_like", sel.name,
                                  Resolved(scanned.bins, cli.bin),
                                  Resolved(scanned.apps, cli.app))
            /\ UNCHANGED <<result, hostBin, hostApps>>
    /\ UNCHANGED <<errKind, cli, laterVars, scanned, postVars, ghostVars, selVars, instVars>>

\* export_items(..)?; notify(..); Ok(())
install_export_return ==
    /\ pc = "exp_ret"
    /\ caller = "install_like"
    /\ IF exRes = "err"
       THEN /\ Failed("Export")
            /\ trace' = trace
       ELSE /\ pc' = "done"
            /\ result' = "ok"
            /\ errKind' = errKind
            /\ trace' = Append(trace, [ev |-> "notify"])
    /\ UNCHANGED <<cli, laterVars, scanned, exportVars, postVars, ghostVars, selVars, errDetails,
                   pkgInstalled>>

InitInstall ==
    /\ LaterIdle
    /\ pc = "install"
    /\ result = "running"
    /\ errKind = ""
    /\ cli \in {[CliDefault EXCEPT !.create = cr, !.dry_run = d, !.no_export = ne, !.bin = b] :
                  cr \in BOOLEAN, d \in BOOLEAN, ne \in BOOLEAN,
                  b \in {<<>>, << <<"bar">> >>}}
    /\ fmt \in {"deb", "rpm"}
    /\ tty \in BOOLEAN
    /\ boxes \in BoxListsOver(<<"b1">>, {"debian", "fedora", ClassFail}, 1)
    /\ sel = NoSel
    /\ pkgFile = NoPkgFile
    /\ hostBin \in {[n \in S |-> Foreign] : S \in {{}, {<<"foo">>}}}
    /\ hostApps = [n \in {} |-> ForeignApp]
    /\ ExportIdle
    /\ PostIdle
    /\ InstallIdle

NextInstall ==
    \/ install_like
    \/ install_copy
    \/ install_verify
    \/ install_prescan
    \/ install_exec1
    \/ install_exec2
    \/ install_diag
    \/ install_post
    \/ export_items_bin
    \/ export_items_app
    \/ install_export_return

SpecInstall == InitInstall /\ [][NextInstall]_vars

---------------------------------------------------------------------------
(* `pkgbridge uninstall <pkg>`: unexport_items and uninstall_inside *)

Remove(fs, name) == [n \in (DOMAIN fs) \ {name} |-> fs[n]]

\* Command::status() of a delete request: it could not be spawned, it exited
\* non-zero, it exited zero.
DeleteOutcomes == {"spawn_err", "nonzero", "ok"}

\* The convention of a request: distrobox-export run on the host with
\* --container, or run inside the container through distrobox enter.
Convention(sup) == IF sup THEN "host" ELSE "inside"
\* The argument after --bin: the name, or format!("/usr/bin/{}", b).
DeleteBinArg(sup, b) == IF sup THEN b ELSE <<"/usr/bin">> \o b

DeleteRequest(kind, item, sup, arg, st) ==
    [kind |-> kind, item |-> item, how |-> "delete", ok |-> st = "ok",
     conv |-> Convention(sup), arg |-> arg, st |-> st]

\* (mutant) the in-container command is run without unexporting first
uninstall_without_unexport(bq, aq) == "uninstall_inside"
AfterUnexport(bq, aq) ==
    IF bq # <<>> THEN "unexp_bin" ELSE IF aq # <<>> THEN "unexp_app" ELSE "uninstall_inside"

\* (mutant) a failed delete request ends unexport_items
after_delete_stop_on_failure(st, bq, aq) ==
    IF st = "ok" THEN AfterUnexport(bq, aq) ELSE "uninstall_inside"
\* let _ = Command::new(..).status();  the result is discarded
AfterDelete(st, bq, aq) == AfterUnexport(bq, aq)

\* uninstall_pkg up to the call of unexport_items, cli.rs:710-717.
uninstall_pkg ==
    /\ pc = "uninstall_pkg"
    /\ \E classify_ok \in BOOLEAN, scan_ok \in BOOLEAN, sc \in ScanResults, sup \in BOOLEAN :
         /\ (cli.container = NoneV \/ ~classify_ok \/ ~scan_ok) => (sc = NoScan /\ ~sup)
         /\ IF cli.container = NoneV \/ ~classify_ok
            THEN /\ pc' = "done"
                 /\ result' = "err"
                 /\ errKind' = IF cli.container = NoneV THEN "ContainerRequired"
                               ELSE "ClassificationFailure"
                 /\ UNCHANGED <<scanned, exportVars>>
            ELSE /\ scanned' = sc
                 /\ UNCHANGED <<result, errKind, hostBin, hostApps, exRes>>
                 /\ IF (sc.bins # <<>> \/ sc.apps # <<>>) /\ ~cli.dry_run
                    THEN /\ caller' = "uninstall_pkg"
                         /\ box' = cli.container
                         /\ supports' = sup
                         /\ batch' = [bins |-> sc.bins, apps |-> sc.apps]
                         /\ binsQ' = sc.bins
                         /\ appsQ' = sc.apps
                         /\ exlog' = <<>>
                         /\ pc' = AfterUnexport(sc.bins, sc.apps)
                    ELSE /\ ~sup
                         /\ pc' = "uninstall_inside"
                         /\ UNCHANGED <<caller, box, supports, batch, binsQ, appsQ, exlog>>
    /\ UNCHANGED <<cli, laterVars, postVars, ghostVars, selVars, instVars>>

\* One pass of `for b in bins` of unexport_items.  A delete that succeeds
\* removes what the helper had exported for the binary.
unexport_items_bin ==
    /\ pc = "unexp_bin"
    /\ LET b == Head(binsQ)
           rest == Tail(binsQ)
       IN  \E st \in DeleteOutcomes :
             /\ exlog' = Append(exlog, DeleteRequest("bin", b, supports, DeleteBinArg(supports, b), st))
             /\ hostBin' = IF st = "ok" /\ Exists(hostBin, b) /\ hostBin[b] = HelperBin(box, b)
                           THEN Remove(hostBin, b) ELSE hostBin
             /\ binsQ' = rest
             /\ pc' = AfterDelete(st, rest, appsQ)
    /\ UNCHANGED <<result, errKind, cli, laterVars, scanned, box, hostApps, caller, appsQ, batch, exRes,
                   supports, postVars, ghostVars, selVars, instVars>>

\* One pass of `for app in apps` of unexport_items.
unexport_items_app ==
    /\ pc = "unexp_app"
    /\ LET base == Head(appsQ)
           rest == Tail(appsQ)
       IN  \E st \in DeleteOutcomes :
             /\ exlog' = Append(exlog, DeleteRequest("app", base, supports, base, st))
             /\ hostApps' = IF st = "ok" /\ Exists(hostApps, HelperAppName(base, box))
                            THEN Remove(hostApps, HelperAppName(base, box)) ELSE hostApps
             /\ appsQ' = rest
             /\ pc' = AfterDelete(st, <<>>, rest)
    /\ UNCHANGED <<result, errKind, cli, laterVars, scanned, box, hostBin, caller, binsQ, batch, exRes,
                   supports, postVars, ghostVars, selVars, instVars>>

\* let ok = uninstall_inside(..)?; println!(..); Ok(())
uninstall_inside ==
    /\ pc = "uninstall_inside"
    /\ \E res \in StatusOutcomes :
         /\ cli.dry_run => res = "ok"
         /\ pc' = "done"
         /\ result' = IF res = "err" THEN "err" ELSE "ok"
         /\ errKind' = IF res = "err" THEN "Uninstall" ELSE errKind
         /\ trace' = IF cli.dry_run THEN trace ELSE Append(trace, [ev |-> "uninstall", res |-> res])
    /\ UNCHANGED <<cli, laterVars, scanned, exportVars, postVars, ghostVars, selVars, errDetails,
                   pkgInstalled>>

InitUninstall ==
    /\ LaterIdle
    /\ pc = "uninstall_pkg"
    /\ result = "running"
    /\ errKind = ""
    /\ cli \in {[CliDefault EXCEPT !.container = c, !.dry_run = d] :
                  c \in {NoneV, BoxName}, d \in BOOLEAN}
    /\ hostBin \in {[n \in {} |-> Foreign],
                    [n \in {<<"foo">>} |-> Foreign],
                    [n \in {<<"foo">>} |-> HelperBin(BoxName, n)]}
    /\ hostApps \in {[n \in S |-> [kind |-> "helper", box |-> BoxName, lines |-> <<>>]] :
                       S \in {{}, {HelperAppName(<<"app">>, BoxName)}}}
    /\ ExportIdle
    /\ PostIdle
    /\ SelectIdle
    /\ InstallIdle

NextUninstall ==
    \/ uninstall_pkg
    \/ unexport_items_bin
    \/ unexport_items_app
    \/ uninstall_inside

SpecUninstall == InitUninstall /\ [][NextUninstall]_vars

---------------------------------------------------------------------------
(* Container Directory: distro::discover_boxes, called by `pkgbridge list` *)

\* Command::output() of a listing attempt: it could not be spawned, it exited
\* non-zero, or it exited zero with a standard output that is blank, that the
\* parser rejects, or that parses to a list.
ListFailures == {"spawn_err", "nonzero"}
JsonOutcomes ==
    {[out |-> k, list |-> <<>>] : k \in ListFailures \cup {"blank", "unparsable"}}
    \cup {[out |-> "list", list |-> l] : l \in BoxLists}
PlainOutcomes ==
    {[out |-> k, list |-> <<>>] : k \in ListFailures}
    \cup {[out |-> "list", list |-> l] : l \in BoxLists}

\* What discover_boxes returns once the plain-text attempt's outcome is known.
discover_boxes_fallback(o) ==
    IF o.out = "spawn_err" THEN [ok |-> FALSE, list |-> <<>>]
    ELSE IF o.out = "nonzero" THEN [ok |-> TRUE, list |-> <<>>]
    ELSE [ok |-> TRUE, list |-> o.list]

\* `distrobox list --json`, distro.rs:26-40.
discover_boxes_json ==
    /\ pc = "discover"
    /\ \E o \in JsonOutcomes :
         /\ trace' = Append(trace, [ev |-> "list_json", out |-> o.out])
         /\ IF o.out = "list"
            THEN boxes' = o.list /\ pc' = "discovered"
            ELSE boxes' = boxes /\ pc' = "discover_plain"
    /\ UNCHANGED <<result, errKind, cli, laterVars, scanned, exportVars, postVars, ghostVars, fmt, pkgFile, tty, sel,
                   errDetails, pkgInstalled>>

\* `distrobox list`, distro.rs:42-49; an Err leaves run through `?` (cli.rs:124).
discover_boxes_plain ==
    /\ pc = "discover_plain"
    /\ \E o \in PlainOutcomes :
         LET r == discover_boxes_fallback(o)
         IN  /\ trace' = Append(trace, [ev |-> "list_plain", out |-> o.out])
             /\ boxes' = r.list
             /\ IF r.ok THEN pc' = "discovered" /\ result' = result /\ errKind' = errKind
                ELSE Failed("Discovery")
    /\ UNCHANGED <<cli, laterVars, scanned, exportVars, postVars, ghostVars, fmt, pkgFile, tty, sel,
                   errDetails, pkgInstalled>>

\* Commands::List: print the table (or "No boxes found"), Ok(()).
list_boxes ==
    /\ pc = "discovered"
    /\ pc' = "done"
    /\ result' = "ok"
    /\ UNCHANGED <<errKind, cli, laterVars, scanned, exportVars, postVars, ghostVars, selVars, instVars>>

InitList ==
    /\ LaterIdle
    /\ pc = "discover"
    /\ result = "running"
    /\ errKind = ""
    /\ cli = CliDefault
    /\ hostBin = [n \in {} |-> Foreign]
    /\ hostApps = [n \in {} |-> ForeignApp]
    /\ ExportIdle
    /\ PostIdle
    /\ SelectIdle
    /\ InstallIdle

NextList ==
    \/ discover_boxes_json
    \/ discover_boxes_plain
    \/ list_boxes

SpecList == InitList /\ [][NextList]_vars

---------------------------------------------------------------------------
(* Format Detector: pkgdetect::detect_package_format *)

HeaderLen == 8          \* let mut header = [0u8; 8]
RpmMagicLen == 4        \* &header[0..4] == [0xed, 0xab, 0xee, 0xdb]
ScanLen == 2048         \* vec![0u8; 512 * 4]
TokenLen == 13          \* b"debian-binary", hay.windows(13)

\* A package file, by what the detector reads of it:
\*   ext       the characters of path.extension(), <<>> when there is none
\*   readable  File::open succeeds
\*   len       its length in bytes
\*   lead      "rpm": bytes 0..3 are ED AB EE DB; "ar": bytes 0..7 are "!<arch>\n"
\*   token     offset of the first "debian-binary" in it, -1 when there is none
PkgFile(ext, readable, len, lead, token) ==
    [ext |-> ext, readable |-> readable, len |-> len, lead |-> lead, token |-> token]

Extensions ==
    { <<>>, <<"d", "e", "b">>, <<"D", "E", "B">>, <<"D", "e", "b">>,
      <<"r", "p", "m">>, <<"R", "P", "M">>, <<"t", "x", "t">> }
FileLens ==
    {0, RpmMagicLen, HeaderLen - 1, HeaderLen, HeaderLen + TokenLen, ScanLen, ScanLen + 1}
TokenOffsets == {-1, 0, HeaderLen, ScanLen - TokenLen, ScanLen - TokenLen + 1}

\* The files that can exist: the lead bytes and the token fit in the file and
\* do not overlap.
PackageFiles ==
    {f \in [ext : Extensions, readable : BOOLEAN, len : FileLens,
            lead : {"rpm", "ar", "other"}, token : TokenOffsets] :
        /\ f.lead = "rpm" => (f.len >= RpmMagicLen /\ f.token \notin 0..(RpmMagicLen - 1))
        /\ f.lead = "ar" => (f.len >= HeaderLen /\ f.token \notin 0..(HeaderLen - 1))
        /\ f.token >= 0 => f.token + TokenLen <= f.len}

\* char::to_ascii_lowercase on the characters used
LowerChar(ch) ==
    CASE ch = "D" -> "d" [] ch = "E" -> "e" [] ch = "B" -> "b"
      [] ch = "R" -> "r" [] ch = "P" -> "p" [] ch = "M" -> "m"
      [] ch = "UBUNTU" -> "ubuntu"     \* a whole word of a release file
      [] ch = "NAME" -> "name" [] ch = "ID" -> "id"    \* and of a listing
      [] ch = "Created" -> "created" [] ch = "IMAGE" -> "image"
      [] ch = "NAME-1" -> "name-1" [] ch = "CONTAINER" -> "container"
      [] ch = "STATUS" -> "status" [] ch = "Up" -> "up"
      [] OTHER -> ch
to_ascii_lowercase(str) == [i \in 1..Len(str) |-> LowerChar(str[i])]

Min(a, b) == IF a <= b THEN a ELSE b

\* (mutant) the RPM lead is accepted as soon as four bytes were read
sniff_magic_short(f) ==
    LET n == Min(HeaderLen, f.len)
    IN  IF n >= RpmMagicLen /\ f.lead = "rpm" THEN "rpm"
        ELSE IF n >= HeaderLen /\ f.lead = "ar" THEN "deb"
        ELSE NoneV
\* let n = f.read(&mut header)?; if n >= 8 { rpm lead => Rpm; ar magic => Deb }
sniff_magic(f) ==
    LET n == Min(HeaderLen, f.len)
    IN  IF n >= HeaderLen
        THEN IF f.lead = "rpm" THEN "rpm" ELSE IF f.lead = "ar" THEN "deb" ELSE NoneV
        ELSE NoneV

\* hay.windows(13).any(|w| w == b"debian-binary") over the first 2048 bytes
has_debian_binary(f) ==
    LET n == Min(ScanLen, f.len)
    IN  f.token >= 0 /\ f.token + TokenLen <= n

DetectOk(format) == [ok |-> TRUE, fmt |-> format, err |-> ""]
DetectErr(err) == [ok |-> FALSE, fmt |-> NoneV, err |-> err]

\* (mutant) the magic bytes of a readable file are looked at before the extension
detect_package_format_magic_first(f) ==
    LET ext == to_ascii_lowercase(f.ext)
    IN  IF f.readable /\ sniff_magic(f) # NoneV THEN DetectOk(sniff_magic(f))
        ELSE IF ext = <<"d", "e", "b">> THEN DetectOk("deb")
        ELSE IF ext = <<"r", "p", "m">> THEN DetectOk("rpm")
        ELSE IF ~f.readable THEN DetectErr("Io")
        ELSE IF has_debian_binary(f) THEN DetectOk("deb")
        ELSE DetectErr("FormatUnknown")
detect_package_format(f) ==
    LET ext == to_ascii_lowercase(f.ext)
    IN  IF ext = <<"d", "e", "b">> THEN DetectOk("deb")
        ELSE IF ext = <<"r", "p", "m">> THEN DetectOk("rpm")
        ELSE IF ~f.readable THEN DetectErr("Io")
        ELSE IF sniff_magic(f) # NoneV THEN DetectOk(sniff_magic(f))
        ELSE IF has_debian_binary(f) THEN DetectOk("deb")
        ELSE DetectErr("FormatUnknown")

\* One call of detect_package_format on the file of the initial state.
detect ==
    /\ pc = "detect"
    /\ LET r == detect_package_format(pkgFile)
       IN  /\ fmt' = r.fmt
           /\ result' = IF r.ok THEN "ok" ELSE "err"
           /\ errKind' = r.err
    /\ pc' = "done"
    /\ UNCHANGED <<cli, laterVars, scanned, exportVars, postVars, ghostVars, pkgFile, tty, boxes, sel,
                   instVars>>

InitDetect ==
    /\ LaterIdle
    /\ pc = "detect"
    /\ result = "running"
    /\ errKind = ""
    /\ cli = CliDefault
    /\ pkgFile \in PackageFiles
    /\ fmt = NoneV
    /\ tty = FALSE
    /\ boxes = <<>>
    /\ sel = NoSel
    /\ hostBin = [n \in {} |-> Foreign]
    /\ hostApps = [n \in {} |-> ForeignApp]
    /\ ExportIdle
    /\ PostIdle
    /\ InstallIdle

NextDetect == detect

SpecDetect == InitDetect /\ [][NextDetect]_vars

---------------------------------------------------------------------------
(* Family Classifier: classify_box_family, parse_os_release, unquote,      *)
(* classify_ids (distro.rs).  A line of the release file is a sequence of  *)
(* pieces of text: a blank, a quote, "#", "ID=", "ID_LIKE=", "VERSION_" or *)
(* a word; pieces that follow each other without a blank form one token.   *)

MaxLines == 2       \* most lines of a release file

SP == " "
DQ == "\""
SQ == "'"

\* str::trim
RECURSIVE Trim(_)
Trim(s) ==
    IF s = <<>> THEN s
    ELSE IF Head(s) = SP THEN Trim(Tail(s))
    ELSE IF s[Len(s)] = SP THEN Trim(SubSeq(s, 1, Len(s) - 1))
    ELSE s

starts_with(s, piece) == Len(s) > 0 /\ s[1] = piece
ends_with(s, piece) == Len(s) > 0 /\ s[Len(s)] = piece

\* The thread panicked: what a function yields, and what the command ends with.
Panic == <<"<panic>">>
Panicked == "<panic>"

\* (mutant) quotes are left in place
unquote_keeps_quotes(s) == Trim(s)
\* t[1..t.len().saturating_sub(1)] panics when t is one quote character:
\* the slice then starts at 1 and ends at 0
unquote(s) ==
    LET t == Trim(s)
    IN  IF \/ starts_with(t, DQ) /\ ends_with(t, DQ)
           \/ starts_with(t, SQ) /\ ends_with(t, SQ)
        THEN IF 1 > Len(t) - 1 THEN Panic ELSE SubSeq(t, 2, Len(t) - 1)
        ELSE t

\* str::split_whitespace: the maximal runs of pieces between blanks
RECURSIVE split_whitespace(_)
split_whitespace(s) ==
    IF s = <<>> THEN <<>>
    ELSE IF Head(s) = SP THEN split_whitespace(Tail(s))
    ELSE LET rest == split_whitespace(Tail(s))
         IN  IF Len(s) > 1 /\ s[2] # SP
             THEN <<(<<Head(s)>> \o Head(rest))>> \o Tail(rest)
             ELSE <<(<<Head(s)>>)>> \o rest

\* (Option<String>, Vec<String>): id is <<>> for None and <<value>> for
\* Some(value); id_like is the list of tokens; panicked when unquote
\* panicked at some line, which ends the loop there
RECURSIVE parse_os_release(_)
parse_os_release(text) ==
    IF text = <<>> THEN [id |-> <<>>, id_like |-> <<>>, panicked |-> FALSE]
    ELSE LET r == parse_os_release(SubSeq(text, 1, Len(text) - 1))
             line == Trim(text[Len(text)])
         IN  IF r.panicked \/ line = <<>> \/ starts_with(line, "#") THEN r
             ELSE IF starts_with(line, "ID=") \/ starts_with(line, "ID_LIKE=")
             THEN IF unquote(Tail(line)) = Panic THEN [r EXCEPT !.panicked = TRUE]
                  ELSE IF starts_with(line, "ID=")
                  THEN [r EXCEPT !.id = <<to_ascii_lowercase(unquote(Tail(line)))>>]
                  ELSE [r EXCEPT !.id_like =
                            @ \o split_whitespace(to_ascii_lowercase(unquote(Tail(line))))]
             ELSE r

\* (mutant) Fedora is checked before Debian
classify_ids_fedora_first(id, id_like) ==
    LET tokens == id \o id_like
        has(k) == \E i \in 1..Len(tokens) : tokens[i] = <<k>>
    IN  IF has("fedora") \/ has("rhel") \/ has("centos") THEN "fedora"
        ELSE IF has("debian") \/ has("ubuntu") THEN "debian"
        ELSE IF has("opensuse") \/ has("sles") \/ has("suse") THEN "opensuse"
        ELSE IF has("arch") \/ has("manjaro") \/ has("endeavouros") THEN "arch"
        ELSE NoneV
classify_ids(id, id_like) ==
    LET tokens == id \o id_like
        has(k) == \E i \in 1..Len(tokens) : tokens[i] = <<k>>
    IN  IF has("debian") \/ has("ubuntu") THEN "debian"
        ELSE IF has("fedora") \/ has("rhel") \/ has("centos") THEN "fedora"
        ELSE IF has("opensuse") \/ has("sles") \/ has("suse") THEN "opensuse"
        ELSE IF has("arch") \/ has("manjaro") \/ has("endeavouros") THEN "arch"
        ELSE NoneV

\* What classify_box_family returns for an outcome of `distrobox enter`:
\* "err" it could not be run, "fail" it exited non-zero, "ok" it printed text.
classify_box_family(o) ==
    IF o.status # "ok" THEN ClassFail
    ELSE LET p == parse_os_release(o.text)
             f == classify_ids(p.id, p.id_like)
         IN  IF p.panicked THEN Panicked
             ELSE IF f = NoneV THEN ClassFail ELSE f

\* Release files.  The values cover every family, quoting of both kinds, an
\* unbalanced quote, upper case, a longer word, an unknown distribution, the
\* empty value and a value that is one quote character.
ReleaseValues ==
    { <<"ubuntu">>, <<"UBUNTU">>, <<DQ, "debian", DQ>>, <<DQ, "debian">>,
      <<"ubuntu", "-core">>, <<"fedora">>, <<SQ, "rhel", SP, "fedora", SQ>>,
      <<"opensuse", SP, "suse">>, <<"arch">>, <<"void">>, <<>>, <<DQ>>, <<SQ>> }
ReleaseLines ==
    {<<>>} \cup {pre \o <<k>> \o v : pre \in {<<>>, <<"#">>, <<"VERSION_">>},
                                     k \in {"ID=", "ID_LIKE="}, v \in ReleaseValues}
ReleaseTexts == UNION {[1..n -> ReleaseLines] : n \in 0..MaxLines}
EnterOutcomes ==
    {[status |-> "err", text |-> <<>>], [status |-> "fail", text |-> <<>>]}
        \cup {[status |-> "ok", text |-> t] : t \in ReleaseTexts}

classify ==
    /\ pc = "classify"
    /\ boxFamily' = classify_box_family(osRelease)
    /\ result' = IF boxFamily' = Panicked THEN "panic"
                 ELSE IF boxFamily' = ClassFail THEN "err" ELSE "ok"
    /\ errKind' = IF boxFamily' = ClassFail THEN "ClassificationFailure" ELSE ""
    /\ pc' = "done"
    /\ UNCHANGED <<exceptCls, osRelease>>

\* No command of the pipeline above is running.
BaseIdle ==
    /\ cli = CliDefault
    /\ hostBin = [n \in {} |-> Foreign]
    /\ hostApps = [n \in {} |-> ForeignApp]
    /\ ExportIdle
    /\ PostIdle
    /\ SelectIdle
    /\ InstallIdle

InitClassify ==
    /\ pc = "classify"
    /\ result = "running"
    /\ errKind = ""
    /\ BaseIdle
    /\ RaceIdle
    /\ MidIdle
    /\ GenerateIdle
    /\ ShimIdle
    /\ ShellIdle
    /\ ConfigIdle
    /\ ParseIdle
    /\ osRelease \in EnterOutcomes
    /\ boxFamily = NoneV

NextClassify == classify

SpecClassify == InitClassify /\ [][NextClassify]_vars

---------------------------------------------------------------------------
(* Persisted files under concurrent invocations: `pm set-default`          *)
(* (pm.rs set_default, config.rs load_config / save_config) and            *)
(* `pm snapshot` (cli.rs pm_snapshot).  std::fs::write opens the file with *)
(* truncation and then writes the content at offset 0; the two system      *)
(* calls are separate steps and nothing orders the steps of two processes. *)
(* A file is a sequence of lines taken to be equally long, so that writing *)
(* n lines at offset 0 replaces exactly the first n lines.                 *)

Invocations == {1, 2}
ConfigLines == {Line(f, b) : f \in {"debian", "fedora"}, b \in {"b1", "b2"}}
SnapshotLists == {<<>>, <<Line("A", "1")>>, <<Line("A", "2"), Line("B", "1")>>}
Ops ==
    {[kind |-> "set_default", fam |-> l.n, box_name |-> l.v] : l \in ConfigLines}
        \cup {[kind |-> "pm_snapshot", fam |-> "", box_name |-> BoxName]}
FileOf(op) == IF op.kind = "set_default" THEN "config" ELSE "snapshot"

KeysOf(lines) == {lines[i].n : i \in 1..Len(lines)}
\* toml::from_str(..).unwrap_or_default(): a text that repeats a key does not
\* parse and gives the default, empty, Config; so does a missing file
load_config(file) ==
    IF file.exists /\ Cardinality(KeysOf(file.lines)) = Len(file.lines)
    THEN [k \in KeysOf(file.lines) |->
             (CHOOSE i \in 1..Len(file.lines) : file.lines[i].n = k)]
    ELSE [k \in {} |-> 0]
ConfigOf(file) == LET ix == load_config(file) IN [k \in DOMAIN ix |-> file.lines[ix[k]].v]
\* toml::to_string_pretty of a HashMap: one line per key, in any order
Serialised(cfg) ==
    {s \in [1..Cardinality(DOMAIN cfg) -> {Line(k, cfg[k]) : k \in DOMAIN cfg}] :
        \A i, j \in 1..Len(s) : i # j => s[i] # s[j]}

\* write(2) of buf at offset 0 of a file that holds old
Overwrite(old, buf) == buf \o SubSeq(old, Len(buf) + 1, Len(old))

Proc(op, at, buf, res) == [op |-> op, pc |-> at, buf |-> buf, res |-> res]

\* set_default up to the call of fs::write: load, insert, serialise
set_default(self) ==
    /\ pc = "concurrent"
    /\ procs[self].pc = "start"
    /\ procs[self].op.kind = "set_default"
    /\ LET op == procs[self].op
           cfg == Put(ConfigOf(files.config), op.fam, op.box_name)
       IN  \E s \in Serialised(cfg) :
               procs' = [procs EXCEPT ![self] = Proc(op, "open", s, "running")]
    /\ UNCHANGED <<ctlVars, exceptCfg, files, lastWrite>>

\* pm_snapshot up to the call of fs::write: the inventory query
pm_snapshot(self) ==
    /\ pc = "concurrent"
    /\ procs[self].pc = "start"
    /\ procs[self].op.kind = "pm_snapshot"
    /\ \/ \E list \in SnapshotLists :
              procs' = [procs EXCEPT ![self] = Proc(@.op, "open", list, "running")]
       \/ procs' = [procs EXCEPT ![self] = Proc(@.op, "done", <<>>, "err")]
    /\ UNCHANGED <<ctlVars, exceptCfg, files, lastWrite>>

\* fs::write, first half: File::create truncates the file, or fails
fs_write_create(self) ==
    /\ pc = "concurrent"
    /\ procs[self].pc = "open"
    /\ \/ /\ files' = [files EXCEPT ![FileOf(procs[self].op)] = File(<<>>)]
          /\ procs' = [procs EXCEPT ![self].pc = "write"]
       \/ /\ procs' = [procs EXCEPT ![self].pc = "done", ![self].res = "err"]
          /\ UNCHANGED files
    /\ UNCHANGED <<ctlVars, exceptCfg, lastWrite>>

\* fs::write, second half: write_all puts the content at offset 0
fs_write_all(self) ==
    /\ pc = "concurrent"
    /\ procs[self].pc = "write"
    /\ LET f == FileOf(procs[self].op)
       IN  /\ files' = [files EXCEPT ![f] = File(Overwrite(@.lines, procs[self].buf))]
           /\ lastWrite' = [lastWrite EXCEPT ![f] = [writers |-> @.writers \cup {self},
                                                     content |-> procs[self].buf]]
    /\ procs' = [procs EXCEPT ![self].pc = "done", ![self].res = "ok"]
    /\ UNCHANGED <<ctlVars, exceptCfg>>

InitConcurrent ==
    /\ pc = "concurrent"
    /\ result = "running"
    /\ errKind = ""
    /\ BaseIdle
    /\ RaceIdle
    /\ MidIdle
    /\ GenerateIdle
    /\ ShimIdle
    /\ ShellIdle
    /\ ClassifyIdle
    /\ ParseIdle
    /\ \E c \in {NoFile} \cup {File(s) : s \in Serialised([k \in {"fedora"} |-> "b1"])},
          sn \in {NoFile} \cup {File(l) : l \in SnapshotLists} :
           files = [config |-> c, snapshot |-> sn]
    /\ procs \in [Invocations -> {Proc(op, "start", <<>>, "running") : op \in Ops}]
    /\ lastWrite = [config |-> [writers |-> {}, content |-> <<>>],
                    snapshot |-> [writers |-> {}, content |-> <<>>]]

NextConcurrent ==
    \E self \in Invocations :
        \/ set_default(self)
        \/ pm_snapshot(self)
        \/ fs_write_create(self)
        \/ fs_write_all(self)

SpecConcurrent == InitConcurrent /\ [][NextConcurrent]_vars

---------------------------------------------------------------------------
(* The plain-text listing parser: parse_boxes_plain (distro.rs).  A row is  *)
(* a sequence of pieces of text: a blank, a pipe or a word.                 *)

MaxRows == 2        \* most rows of a listing

PIPE == "|"

\* the words of a listing that are made of '-' and '+' only
DashWords == {"----", "+---"}
\* str::len of a word
CharLen(w) ==
    CASE w = "abcdef123456" -> 12 [] w = "CONTAINER" -> 9 [] w = "Created" -> 7
      [] w = "NAME-1" -> 6 [] w = "STATUS" -> 6 [] w = "IMAGE" -> 5 [] w = "image" -> 5
      [] w = "box1" -> 4 [] w = "NAME" -> 4 [] w = "name" -> 4
      [] w = "----" -> 4 [] w = "+---" -> 4 [] w = "img" -> 3
      [] w = "ID" -> 2 [] w = "id" -> 2 [] w = "Up" -> 2
      [] OTHER -> 1
RECURSIVE TextLen(_)
TextLen(s) == IF s = <<>> THEN 0 ELSE CharLen(Head(s)) + TextLen(Tail(s))

\* str::split(sep): the pieces between the separators, empty ones included
RECURSIVE split(_, _)
split(s, sep) ==
    IF s = <<>> THEN << <<>> >>
    ELSE LET r == split(Tail(s), sep)
         IN  IF Head(s) = sep THEN << <<>> >> \o r
             ELSE << (<<Head(s)>> \o Head(r)) >> \o Tail(r)

eq_ignore_ascii_case(s, word) == to_ascii_lowercase(s) = <<word>>
\* t.starts_with("NAME"), t.starts_with("+---")
starts_with_text(t, prefix) ==
    /\ t # <<>>
    /\ IF prefix = "NAME" THEN t[1] \in {"NAME", "NAME-1"} ELSE t[1] = prefix
\* t.contains("CONTAINER ID")
contains_container_id(t) ==
    \E i \in 1..(Len(t) - 2) : t[i] = "CONTAINER" /\ t[i + 1] = SP /\ t[i + 2] = "ID"

\* DistroBox { name, image, runtime: "unknown" }; image is <<>> for None
DistroBox(name, image) == [name |-> name, image |-> image, runtime |-> "unknown"]
\* cols.get(i).cloned() / parts.get(i): <<>> for None, <<v>> for Some(v)
Get(list, i) == IF i <= Len(list) THEN <<list[i]>> ELSE <<>>

ParseState(bxs, saw) == [boxes |-> bxs, saw_pipe_header |-> saw]

\* the fallback heuristic for one trimmed row without a pipe
whitespace_row(st, t) ==
    IF \/ starts_with_text(t, "NAME") \/ starts_with_text(t, "+---")
       \/ contains_container_id(t) \/ eq_ignore_ascii_case(t, "id")
    THEN st
    ELSE LET parts == split_whitespace(t)
         IN  IF Len(parts) = 0 THEN st
             ELSE IF st.saw_pipe_header /\ TextLen(parts[1]) >= 6 /\ Len(parts) >= 2
             THEN [st EXCEPT !.boxes = Append(@, DistroBox(parts[2], Get(parts, 4)))]
             ELSE IF \/ eq_ignore_ascii_case(parts[1], "name")
                     \/ eq_ignore_ascii_case(parts[1], "created")
             THEN st
             ELSE [st EXCEPT !.boxes = Append(@, DistroBox(parts[1], Get(parts, 2)))]

\* (mutant) the first column of a pipe row is taken as the name
pipe_row_first_column(st, t) ==
    LET raw == split(t, PIPE)
        cols == [i \in 1..Len(raw) |-> Trim(raw[i])]
    IN  IF /\ \E i \in 1..Len(cols) : eq_ignore_ascii_case(cols[i], "name")
           /\ \E i \in 1..Len(cols) : eq_ignore_ascii_case(cols[i], "id")
        THEN [st EXCEPT !.saw_pipe_header = TRUE]
        ELSE IF \A i \in 1..Len(cols) : \A k \in 1..Len(cols[i]) : cols[i][k] \in DashWords
        THEN st
        ELSE IF Len(cols) >= 2
        THEN IF cols[1] = <<>> \/ eq_ignore_ascii_case(cols[1], "name") THEN st
             ELSE [st EXCEPT !.boxes = Append(@, DistroBox(cols[1], Get(cols, 4)))]
        ELSE whitespace_row(st, t)
\* one trimmed row that contains a pipe
pipe_row(st, t) ==
    LET raw == split(t, PIPE)
        cols == [i \in 1..Len(raw) |-> Trim(raw[i])]
    IN  IF /\ \E i \in 1..Len(cols) : eq_ignore_ascii_case(cols[i], "name")
           /\ \E i \in 1..Len(cols) : eq_ignore_ascii_case(cols[i], "id")
        THEN [st EXCEPT !.saw_pipe_header = TRUE]
        ELSE IF \A i \in 1..Len(cols) : \A k \in 1..Len(cols[i]) : cols[i][k] \in DashWords
        THEN st
        ELSE IF Len(cols) >= 2
        THEN IF cols[2] = <<>> \/ eq_ignore_ascii_case(cols[2], "name") THEN st
             ELSE [st EXCEPT !.boxes = Append(@, DistroBox(cols[2], Get(cols, 4)))]
        ELSE whitespace_row(st, t)

\* the loop of parse_boxes_plain over the rows
RECURSIVE parse_rows(_)
parse_rows(rows) ==
    IF rows = <<>> THEN ParseState(<<>>, FALSE)
    ELSE LET st == parse_rows(SubSeq(rows, 1, Len(rows) - 1))
             t == Trim(rows[Len(rows)])
         IN  IF t = <<>> THEN st
             ELSE IF \E i \in 1..Len(t) : t[i] = PIPE THEN pipe_row(st, t)
             ELSE whitespace_row(st, t)
parse_boxes_plain(rows) == parse_rows(rows).boxes

\* Rows of both formats: headers, separators, data rows with and without an
\* image, rows with an empty name, with a long first token, with extra
\* blanks, and rows that only look like a header.
ListingRows ==
    { <<>>, <<SP>>,
      <<"ID", SP, PIPE, SP, "NAME", SP, PIPE, SP, "STATUS", SP, PIPE, SP, "IMAGE">>,
      <<"id", PIPE, "name">>,
      <<"----", PIPE, "+---">>,
      <<PIPE>>,
      <<"abcdef123456", SP, PIPE, SP, "box1", SP, PIPE, SP, "Up", SP, PIPE, SP, "img">>,
      <<"abcdef123456", PIPE, "box1">>,
      <<"abcdef123456", PIPE, SP, PIPE, "Up", PIPE, "img">>,
      <<"box1", PIPE>>,
      <<"x", PIPE, "NAME">>,
      <<"NAME", PIPE, "STATUS", PIPE, "IMAGE">>,
      <<"NAME", SP, "IMAGE">>,
      <<"name", SP, "image">>,
      <<"NAME-1", SP, "img">>,
      <<"+---", "----">>,
      <<"----">>,
      <<"CONTAINER", SP, "ID", SP, "NAME">>,
      <<"id">>,
      <<"Created", SP, "img">>,
      <<"box1", SP, "img">>,
      <<"box1">>,
      <<SP, "box1", SP, SP, "img", SP>>,
      <<"abcdef123456", SP, "box1", SP, "Up", SP, "img">>,
      <<"abcdef123456", SP, "box1">>,
      <<"abcdef123456">> }
PlainListings == UNION {[1..n -> ListingRows] : n \in 0..MaxRows}

parse ==
    /\ pc = "parse"
    /\ parsed' = parse_boxes_plain(listing)
    /\ pc' = "done"
    /\ result' = "ok"
    /\ UNCHANGED <<errKind, exceptParse, listing>>

InitParse ==
    /\ pc = "parse"
    /\ result = "running"
    /\ errKind = ""
    /\ BaseIdle
    /\ RaceIdle
    /\ MidIdle
    /\ GenerateIdle
    /\ ShimIdle
    /\ ShellIdle
    /\ ClassifyIdle
    /\ ConfigIdle
    /\ listing \in PlainListings
    /\ parsed = <<>>

NextParse == parse

SpecParse == InitParse /\ [][NextParse]_vars

---------------------------------------------------------------------------
(* The install commands as the shell of the container runs them:           *)
(* build_install_cmd_root and build_install_cmd_user (cli.rs).  The        *)
(* container is given by the tools `command -v` finds and by the steps     *)
(* that fail when they are run; a run yields the tools it ran, in order,   *)
(* and whether the command exited with status 0.                           *)

Tools == {"apt-get", "apt", "dnf", "zypper", "sudo", "doas"}
\* update: the index update; lowlevel: dpkg -i; fixup: -f install;
\* install: the RPM installer; auth: sudo or doas asking for a password
Steps == {"update", "lowlevel", "fixup", "install", "auth"}
Containers ==
    [present : SUBSET Tools, failing : SUBSET Steps, sudo_n_ok : BOOLEAN, fmt : {"deb", "rpm"}]

Ran(tool, what) == [tool |-> tool, what |-> what]
Run(tr, ok) == [trace |-> tr, ok |-> ok]
\* `a; b` under set -e: b runs only when a exited with 0
Then(a, b) == IF a.ok THEN Run(a.trace \o b.trace, b.ok) ELSE a
\* `a || b`: b runs only when a failed
OrElse(a, b) == IF a.ok THEN a ELSE Run(a.trace \o b.trace, b.ok)
Exec(env, tool, what, step) == Run(<<Ran(tool, what)>>, step \notin env.failing)
Skip == Run(<<>>, TRUE)

\* if command -v apt-get; then apt-get -y update; elif command -v apt; then apt -y update; fi
update_indexes(env) ==
    IF "apt-get" \in env.present THEN Exec(env, "apt-get", "update", "update")
    ELSE IF "apt" \in env.present THEN Exec(env, "apt", "update", "update")
    ELSE Skip
\* the block after `dpkg -i ... ||`; last is its else branch
fix_dependencies(env, last) ==
    IF "apt-get" \in env.present THEN Exec(env, "apt-get", "fix", "fixup")
    ELSE IF "apt" \in env.present THEN Exec(env, "apt", "fix", "fixup")
    ELSE last
\* (mutant) the low-level install runs whatever the index update returned
deb_script_without_errexit(env, last) ==
    LET u == update_indexes(env)
        rest == OrElse(Exec(env, "dpkg", "install", "lowlevel"), fix_dependencies(env, last))
    IN  Run(u.trace \o rest.trace, rest.ok)
deb_script(env, last) ==
    Then(update_indexes(env),
         OrElse(Exec(env, "dpkg", "install", "lowlevel"), fix_dependencies(env, last)))
rpm_script(env) ==
    IF "dnf" \in env.present THEN Exec(env, "dnf", "install", "install")
    ELSE IF "zypper" \in env.present THEN Exec(env, "zypper", "install", "install")
    ELSE Exec(env, "rpm", "install", "install")

\* the command build_install_cmd_root builds, run in env
run_install_cmd_root(env) ==
    IF env.fmt = "deb" THEN deb_script(env, Run(<<Ran("printf", "apt-not-found")>>, FALSE))
    ELSE rpm_script(env)
\* `inner` of build_install_cmd_user, run in env
run_inner(env) ==
    IF env.fmt = "deb" THEN deb_script(env, Run(<<Ran("true", "")>>, TRUE))
    ELSE rpm_script(env)
\* sudo sh -lc / doas sh -lc: the inner command runs once the elevation succeeded
Elevated(env, tool, may_ask) ==
    IF may_ask /\ "auth" \in env.failing THEN Run(<<Ran(tool, "sh")>>, FALSE)
    ELSE Run(<<Ran(tool, "sh")>> \o run_inner(env).trace, run_inner(env).ok)
\* the command build_install_cmd_user builds, run in env
run_install_cmd_user(env) ==
    IF "sudo" \in env.present
    THEN LET probe == <<Ran("sudo", "-n true")>>
             r == Elevated(env, "sudo", ~env.sudo_n_ok)
         IN  Run(probe \o r.trace, r.ok)
    ELSE IF "doas" \in env.present THEN Elevated(env, "doas", TRUE)
    ELSE Elevated(env, "sh", FALSE)

sh_root ==
    /\ pc = "sh_root"
    /\ shRoot' = run_install_cmd_root(shEnv)
    /\ pc' = "sh_user"
    /\ UNCHANGED <<result, errKind, exceptShell, shEnv, shUser>>

sh_user ==
    /\ pc = "sh_user"
    /\ shUser' = [trace |-> run_install_cmd_user(shEnv).trace,
                  ok |-> run_install_cmd_user(shEnv).ok,
                  inner |-> run_inner(shEnv)]
    /\ pc' = "done"
    /\ result' = "ok"
    /\ UNCHANGED <<errKind, exceptShell, shEnv, shRoot>>

InitShell ==
    /\ pc = "sh_root"
    /\ result = "running"
    /\ errKind = ""
    /\ BaseIdle
    /\ RaceIdle
    /\ MidIdle
    /\ GenerateIdle
    /\ ShimIdle
    /\ ClassifyIdle
    /\ ConfigIdle
    /\ ParseIdle
    /\ shEnv \in Containers
    /\ shRoot = <<>>
    /\ shUser = <<>>

NextShell == sh_root \/ sh_user

SpecShell == InitShell /\ [][NextShell]_vars

---------------------------------------------------------------------------
(* A run of a generated package-manager shim: the script write_shim writes  *)
(* and the one write_bootstrap_shim writes (pm.rs).  Every command of the   *)
(* script is a step whose exit status the environment chooses.             *)

ReadOnlyFlags == {"--version", "-v", "--help", "-h"}
FirstArgs == ReadOnlyFlags \cup {"install", ""}
ExitStatuses == {0, 1, 100}
ShimRuns == [kind : {"shim", "bootstrap"}, arg : FirstArgs]

Cmd(what, how, status) == [cmd |-> what, how |-> how, status |-> status]

\* case "$1" in --version|-v|--help|-h) exec distrobox enter ... ;; *) ;; esac
shim_case ==
    /\ pc = "shim_start"
    /\ shimRun.kind = "shim"
    /\ IF shimRun.arg \in ReadOnlyFlags
       THEN \E st \in ExitStatuses :
               /\ shimTrace' = Append(shimTrace, Cmd("pm", "exec", st))
               /\ shimExit' = st
               /\ pc' = "done"
       ELSE /\ pc' = "shim_snapshot"
            /\ UNCHANGED <<shimTrace, shimExit>>
    /\ UNCHANGED <<result, errKind, exceptShim, shimRun>>

\* the head of the bootstrap script: look the default container up, offer to
\* create one on a terminal; under set -e a failing create or set-default
\* ends the script
shim_bootstrap_lookup ==
    /\ pc = "shim_start"
    /\ shimRun.kind = "bootstrap"
    /\ \/ /\ pc' = "shim_snapshot"
          /\ UNCHANGED <<shimTrace, shimExit>>
       \/ /\ pc' = "done"
          /\ shimExit' = 1
          /\ UNCHANGED shimTrace
       \/ \E create \in ExitStatuses, set \in ExitStatuses :
            /\ set # 0 => create = 0
            /\ shimTrace' = shimTrace \o <<Cmd("distrobox create", "", create)>>
                               \o (IF create = 0 THEN <<Cmd("set-default", "", set)>> ELSE <<>>)
            /\ IF create = 0 /\ set = 0
               THEN pc' = "shim_snapshot" /\ shimExit' = shimExit
               ELSE pc' = "done" /\ shimExit' = (IF create # 0 THEN create ELSE set)
    /\ UNCHANGED <<result, errKind, exceptShim, shimRun>>

\* pkgbridge pm snapshot ... || true
shim_snapshot ==
    /\ pc = "shim_snapshot"
    /\ \E st \in ExitStatuses : shimTrace' = Append(shimTrace, Cmd("snapshot", "", st))
    /\ pc' = "shim_pm"
    /\ UNCHANGED <<result, errKind, exceptShim, shimRun, shimExit>>

\* status=0; the manager under sudo, doas or neither, `|| status=$?`
shim_pm ==
    /\ pc = "shim_pm"
    /\ \E how \in {"sudo", "doas", "plain"}, st \in ExitStatuses :
         shimTrace' = Append(shimTrace, Cmd("pm", how, st))
    /\ pc' = "shim_post"
    /\ UNCHANGED <<result, errKind, exceptShim, shimRun, shimExit>>

\* pkgbridge pm post-transaction ... || true; exit $status
shim_post ==
    /\ pc = "shim_post"
    /\ \E st \in ExitStatuses :
         shimTrace' = Append(shimTrace, Cmd("post-transaction", "", st))
    /\ shimExit' = shimTrace[Len(shimTrace)].status
    /\ pc' = "done"
    /\ UNCHANGED <<result, errKind, exceptShim, shimRun>>

InitShim ==
    /\ pc = "shim_start"
    /\ result = "running"
    /\ errKind = ""
    /\ BaseIdle
    /\ RaceIdle
    /\ MidIdle
    /\ GenerateIdle
    /\ ClassifyIdle
    /\ ConfigIdle
    /\ ParseIdle
    /\ ShellIdle
    /\ shimRun \in ShimRuns
    /\ shimTrace = <<>>
    /\ shimExit = -1

NextShim == shim_case \/ shim_bootstrap_lookup \/ shim_snapshot \/ shim_pm \/ shim_post

SpecShim == InitShim /\ [][NextShim]_vars

---------------------------------------------------------------------------
(* `pkgbridge pm generate-shims`: generate_shims, generate_bootstrap_shims_into, *)
(* generate_shim_with_policy, host_has_cmd_outside_bindir, sanitize (pm.rs). *)
(* A file of the bin directory is named by its tokens: <<"apt">> is apt,    *)
(* <<"apt", "c1">> is apt-c1.                                                *)

Managers == <<"apt", "apt-get", "dnf", "zypper", "pacman">>
\* the family key write_bootstrap_shim is given for a manager
BootstrapFamily(mgr) ==
    CASE mgr \in {"apt", "apt-get"} -> "debian" [] mgr = "dnf" -> "fedora"
      [] mgr = "zypper" -> "opensuse" [] OTHER -> "arch"
\* the managers generate_shims writes shims of for a family key
ManagersOf(fam_key) ==
    CASE fam_key \in {"debian", "ubuntu"} -> <<"apt", "apt-get">>
      [] fam_key = "fedora" -> <<"dnf">>
      [] fam_key = "opensuse" -> <<"zypper">>
      [] fam_key = "arch" -> <<"pacman">>
      [] OTHER -> <<>>
\* every character that is not alphanumeric, '-' or '_' becomes '-'
sanitize(box_name) == IF box_name = "my.box" THEN "my-box" ELSE box_name

BootstrapShim(fam_key, mgr) == [kind |-> "bootstrap", box |-> fam_key, cmd |-> <<mgr>>]
PmShim(box_name, mgr) == [kind |-> "pm-shim", box |-> box_name, cmd |-> <<mgr>>]

host_has_cmd_outside_bindir(cmd) == whichCmd[cmd] = "outside"
\* fs::write then set_permissions: nothing is written when the write fails
write_shim(dir, wrapper_name, content, w) ==
    IF w = "fail_write" THEN dir ELSE Put(dir, wrapper_name, content)

BootstrapCall(mgr) == [fn |-> "bootstrap", mgr |-> mgr, box_name |-> "", fam_key |-> ""]
PolicyCall(mgr, box_name, fam_key) ==
    [fn |-> "policy", mgr |-> mgr, box_name |-> box_name, fam_key |-> fam_key]
PolicyCalls(fam_key) ==
    [i \in 1..Len(ManagersOf(fam_key)) |->
        PolicyCall(ManagersOf(fam_key)[i], pmDefaults[fam_key], fam_key)]
\* the orders in which a HashMap can yield the keys ks
Orders(ks) == {o \in [1..Cardinality(ks) -> ks] : \A i, j \in 1..Len(o) : i # j => o[i] # o[j]}

\* generate_shims up to its first write: the calls it is going to make
generate_shims ==
    /\ pc = "generate_shims"
    /\ \E o \in Orders(DOMAIN pmDefaults) :
         genQ' = [i \in 1..Len(Managers) |-> BootstrapCall(Managers[i])]
                    \o Concat([i \in 1..Len(o) |-> PolicyCalls(o[i])])
    /\ pc' = "gen"
    /\ UNCHANGED <<result, errKind, exceptGenerate, binDir, binDir0, whichCmd, pmDefaults>>

\* one `if !host_has_cmd_outside_bindir(..) { write_bootstrap_shim(..).ok(); }`
generate_bootstrap_shims_into ==
    /\ pc = "gen"
    /\ genQ # <<>> /\ Head(genQ).fn = "bootstrap"
    /\ LET mgr == Head(genQ).mgr
       IN  IF host_has_cmd_outside_bindir(mgr) THEN binDir' = binDir
           ELSE \E w \in WriteOutcomes :
                   binDir' = write_shim(binDir, <<mgr>>,
                                        BootstrapShim(BootstrapFamily(mgr), mgr), w)
    /\ genQ' = Tail(genQ)
    /\ UNCHANGED <<ctlVars, exceptGenerate, binDir0, whichCmd, pmDefaults>>

\* one call of generate_shim_with_policy; a failed write_shim ends generate_shims
generate_shim_with_policy ==
    /\ pc = "gen"
    /\ genQ # <<>> /\ Head(genQ).fn = "policy"
    /\ LET c == Head(genQ)
           alt == <<c.mgr, sanitize(c.box_name)>>
           out == IF host_has_cmd_outside_bindir(c.mgr) \/ Exists(binDir, <<c.mgr>>)
                  THEN alt ELSE <<c.mgr>>
       IN  IF out = alt /\ Exists(binDir, alt)
           THEN /\ binDir' = binDir
                /\ genQ' = Tail(genQ)
                /\ UNCHANGED ctlVars
           ELSE \E w \in WriteOutcomes :
                   /\ binDir' = write_shim(binDir, out, PmShim(c.box_name, c.mgr), w)
                   /\ IF w = "ok"
                      THEN genQ' = Tail(genQ) /\ UNCHANGED ctlVars
                      ELSE /\ genQ' = <<>>
                           /\ pc' = "done" /\ result' = "err" /\ errKind' = "ConfigIO"
    /\ UNCHANGED <<exceptGenerate, binDir0, whichCmd, pmDefaults>>

\* ensure_bindir_on_path writes to the shell profile, not to the bin directory
ensure_bindir_on_path ==
    /\ pc = "gen"
    /\ genQ = <<>>
    /\ pc' = "done"
    /\ \E ok \in BOOLEAN :
         /\ result' = IF ok THEN "ok" ELSE "err"
         /\ errKind' = IF ok THEN "" ELSE "ConfigIO"
    /\ UNCHANGED <<exceptGenerate, genVars>>

BinDirNames == { <<"apt">>, <<"apt", "c1">>, <<"dnf">>, <<"dnf", "my-box">> }
InitGenerate ==
    /\ pc = "generate_shims"
    /\ result = "running"
    /\ errKind = ""
    /\ BaseIdle
    /\ RaceIdle
    /\ MidIdle
    /\ ClassifyIdle
    /\ ConfigIdle
    /\ ParseIdle
    /\ ShellIdle
    /\ ShimIdle
    /\ binDir \in {[n \in S |-> Foreign] : S \in SUBSET BinDirNames}
    /\ binDir0 = binDir
    /\ whichCmd \in {f \in [Range(Managers) -> {"none", "outside", "inside"}] :
                       /\ \A mgr \in Range(Managers) : f[mgr] = "inside" => Exists(binDir, <<mgr>>)
                       /\ f["apt-get"] = f["apt"] /\ f["zypper"] = "none"}
    /\ pmDefaults \in UNION {[ks -> {"c1", "my.box"}] : ks \in SUBSET {"debian", "fedora"}}
    /\ genQ = <<>>

NextGenerate ==
    \/ generate_shims
    \/ generate_bootstrap_shims_into
    \/ generate_shim_with_policy
    \/ ensure_bindir_on_path

SpecGenerate == InitGenerate /\ [][NextGenerate]_vars

---------------------------------------------------------------------------
(* `pkgbridge export <pkg>` followed by `pkgbridge uninstall <pkg>`, the    *)
(* only caller of unexport_items                                            *)

\* The uninstall command is run on the host directories the export left behind.
uninstall_after_export ==
    /\ pc = "done"
    /\ ~prevRun.ran
    /\ prevRun' = [ran |-> TRUE, result |-> result, log |-> exlog]
    /\ midBin' = hostBin
    /\ midApps' = hostApps
    /\ midBatch' = batch
    /\ pc' = "uninstall_pkg"
    /\ result' = "running"
    /\ errKind' = ""
    /\ scanned' = NoScan
    /\ box' = NoneV
    /\ caller' = NoneV
    /\ binsQ' = <<>>
    /\ appsQ' = <<>>
    /\ batch' = [bins |-> <<>>, apps |-> <<>>]
    /\ exlog' = <<>>
    /\ exRes' = "none"
    /\ UNCHANGED <<cli, clsVars, cfgVars, parseVars, shVars, shimVars, genVars, raceVars, hostBin, hostApps,
                   supports, postVars, hostBin0, hostApps0, snap0, selVars, instVars>>

InitExportUninstall ==
    /\ LaterIdle
    /\ pc = "export_pkg"
    /\ result = "running"
    /\ errKind = ""
    /\ cli = [CliDefault EXCEPT !.container = BoxName]
    /\ hostBin \in {[n \in S |-> Foreign] : S \in {{}, {<<"foo">>}}}
    /\ hostApps \in {[n \in S |-> ForeignApp] : S \in {{}, {<<"app">>}}}
    /\ ExportIdle
    /\ PostIdle
    /\ SelectIdle
    /\ InstallIdle

NextExportUninstall ==
    \/ export_pkg
    \/ export_items_bin
    \/ export_items_app
    \/ export_pkg_return
    \/ uninstall_after_export
    \/ uninstall_pkg
    \/ unexport_items_bin
    \/ unexport_items_app
    \/ uninstall_inside

SpecExportUninstall == InitExportUninstall /\ [][NextExportUninstall]_vars

---------------------------------------------------------------------------
(* Two runs of a package-manager shim on one container.  Each run is the    *)
(* script of write_shim (pm.rs): `pkgbridge pm snapshot .. || true`, the    *)
(* package manager, `pkgbridge pm post-transaction .. || true`; the two     *)
(* commands are pm_snapshot and pm_post_transaction of cli.rs with          *)
(* list_installed_pkgs.  Nothing orders the steps of the two runs.  The     *)
(* export loop of pm_post_transaction is followed in SpecPost; here a       *)
(* package counts as handed to the Export Engine when the loop is entered   *)
(* with it.                                                                 *)

\* The package each run's transaction installs.
RunPkg(self) == IF self = 1 THEN "A" ELSE "B"

\* list_installed_pkgs: classify_box_family failed, the query could not be
\* started, it exited non-zero having printed nothing, it printed the inventory.
InventoryQueries == {"classify_err", "spawn_err", "nonzero", "ok"}
\* let out = enter_capture(..)?; the lines of out.stdout, the exit status unread
list_installed_pkgs(q, pkgs) == IF q = "ok" THEN LinesOf(Pkgs, pkgs) ELSE <<>>

\* (mutant) only changed versions are reported
diff_upgraded_only(before_lines, after_list) ==
    upgraded(before_set(before_lines), after_map(after_list))
\* new_pkgs and upgraded of pm_post_transaction, cli.rs:838-849
Diff(before_lines, after_list) ==
    new_pkgs(before_set(before_lines), after_map(after_list))
        \cup upgraded(before_set(before_lines), after_map(after_list))

ShimRun(at, snap, post, before, buf) ==
    [pc |-> at, snap |-> snap, post |-> post, before |-> before, buf |-> buf]
Other(self) == CHOOSE o \in Invocations : o # self

\* pm_snapshot up to the call of fs::write
run_snapshot(self) ==
    /\ pc = "shims"
    /\ runs[self].pc = "start"
    /\ overlapped' = (overlapped \/ runs[Other(self)].pc \notin {"start", "done"})
    /\ \E q \in InventoryQueries :
         runs' = [runs EXCEPT ![self] =
                    IF q \in {"classify_err", "spawn_err"}
                    THEN ShimRun("pm", q, "none", <<>>, <<>>)
                    ELSE ShimRun("snap_open", q, "none", <<>>, list_installed_pkgs(q, boxPkgs))]
    /\ UNCHANGED <<ctlVars, exceptRace, boxPkgs, boxSnap, handed, fresh, snapLog>>

SnapWrite(self, old, new) ==
    [run |-> self, query |-> runs[self].snap, old |-> old, new |-> new]

\* fs::write of pm_snapshot, first half: File::create truncates, or fails
run_snapshot_create(self) ==
    /\ pc = "shims"
    /\ runs[self].pc = "snap_open"
    /\ \/ /\ boxSnap' = File(<<>>)
          /\ snapLog' = Append(snapLog, SnapWrite(self, boxSnap, File(<<>>)))
          /\ runs' = [runs EXCEPT ![self].pc = "snap_write"]
       \/ /\ runs' = [runs EXCEPT ![self].pc = "pm", ![self].snap = "write_err"]
          /\ UNCHANGED <<boxSnap, snapLog>>
    /\ UNCHANGED <<ctlVars, exceptRace, boxPkgs, handed, fresh, overlapped>>

\* fs::write of pm_snapshot, second half
run_snapshot_write(self) ==
    /\ pc = "shims"
    /\ runs[self].pc = "snap_write"
    /\ boxSnap' = File(Overwrite(boxSnap.lines, runs[self].buf))
    /\ snapLog' = Append(snapLog, SnapWrite(self, boxSnap, boxSnap'))
    /\ runs' = [runs EXCEPT ![self].pc = "pm"]
    /\ UNCHANGED <<ctlVars, exceptRace, boxPkgs, handed, fresh, overlapped>>

\* the package manager inside the container: `.. || status=$?`
run_pm(self) ==
    /\ pc = "shims"
    /\ runs[self].pc = "pm"
    /\ \E ok \in BOOLEAN :
         /\ boxPkgs' = IF ok THEN [boxPkgs EXCEPT ![RunPkg(self)] = "1"] ELSE boxPkgs
         /\ fresh' = IF ok /\ boxPkgs[RunPkg(self)] = Absent
                     THEN fresh \cup {RunPkg(self)} ELSE fresh
    /\ runs' = [runs EXCEPT ![self].pc = "post_read"]
    /\ UNCHANGED <<ctlVars, exceptRace, boxSnap, handed, overlapped, snapLog>>

\* pm_post_transaction: classify_box_family(..)? and the read of the snapshot
run_post_read(self) ==
    /\ pc = "shims"
    /\ runs[self].pc = "post_read"
    /\ \E classify_ok \in BOOLEAN :
         runs' = [runs EXCEPT ![self] =
                    IF classify_ok
                    THEN [@ EXCEPT !.pc = "post_query", !.before = ReadSnapshot(boxSnap)]
                    ELSE [@ EXCEPT !.pc = "done", !.post = "classify_err"]]
    /\ UNCHANGED <<ctlVars, exceptRace, boxPkgs, boxSnap, handed, fresh, overlapped, snapLog>>

\* pm_post_transaction from list_installed_pkgs to the end of `for pkg in pkgs`
run_post_query(self) ==
    /\ pc = "shims"
    /\ runs[self].pc = "post_query"
    /\ \E q \in InventoryQueries \ {"classify_err"} :
         LET after_list == list_installed_pkgs(q, boxPkgs)
             pkgs == Diff(runs[self].before, after_list)
         IN  /\ handed' = IF q = "spawn_err" THEN handed ELSE handed \cup pkgs
             /\ runs' = [runs EXCEPT ![self] =
                           IF q = "spawn_err" \/ pkgs = {}
                           THEN [@ EXCEPT !.pc = "done", !.post = q]
                           ELSE [@ EXCEPT !.pc = "post_open", !.post = q, !.buf = after_list]]
    /\ UNCHANGED <<ctlVars, exceptRace, boxPkgs, boxSnap, fresh, overlapped, snapLog>>

\* fs::write of pm_post_transaction, first half
run_post_create(self) ==
    /\ pc = "shims"
    /\ runs[self].pc = "post_open"
    /\ \/ /\ boxSnap' = File(<<>>)
          /\ runs' = [runs EXCEPT ![self].pc = "post_write"]
       \/ /\ runs' = [runs EXCEPT ![self].pc = "done"]
          /\ UNCHANGED boxSnap
    /\ UNCHANGED <<ctlVars, exceptRace, boxPkgs, handed, fresh, overlapped, snapLog>>

\* fs::write of pm_post_transaction, second half
run_post_write(self) ==
    /\ pc = "shims"
    /\ runs[self].pc = "post_write"
    /\ boxSnap' = File(Overwrite(boxSnap.lines, runs[self].buf))
    /\ runs' = [runs EXCEPT ![self].pc = "done"]
    /\ UNCHANGED <<ctlVars, exceptRace, boxPkgs, handed, fresh, overlapped, snapLog>>

InitShims ==
    /\ pc = "shims"
    /\ result = "running"
    /\ errKind = ""
    /\ BaseIdle
    /\ ClassifyIdle
    /\ ConfigIdle
    /\ ParseIdle
    /\ ShellIdle
    /\ ShimIdle
    /\ GenerateIdle
    /\ MidIdle
    /\ runs = [self \in Invocations |-> ShimRun("start", "none", "none", <<>>, <<>>)]
    /\ boxPkgs \in {f \in [PkgSet -> {Absent, "1"}] : f["A"] = Absent /\ f["B"] = Absent}
    /\ boxSnap \in {NoFile, File(<<Line("A", "1")>>), File(<<Line("C", "1")>>)}
    /\ handed = {}
    /\ fresh = {}
    /\ overlapped = FALSE
    /\ snapLog = <<>>

NextShims ==
    \E self \in Invocations :
        \/ run_snapshot(self)
        \/ run_snapshot_create(self)
        \/ run_snapshot_write(self)
        \/ run_pm(self)
        \/ run_post_read(self)
        \/ run_post_query(self)
        \/ run_post_create(self)
        \/ run_post_write(self)

SpecShims == InitShims /\ [][NextShims]_vars

---------------------------------------------------------------------------
(* Claims about the Export Engine, checked under SpecExport *)

Attempted(kind, item) == \E i \in 1..Len(exlog) : exlog[i].kind = kind /\ exlog[i].item = item
AttemptedOk(kind, item, how) ==
    \E i \in 1..Len(exlog) :
        exlog[i].kind = kind /\ exlog[i].item = item /\ exlog[i].how = how /\ exlog[i].ok

\* C1: every binary foo of the batch whose host path held a file when export
\* started keeps that file unchanged, and once foo was processed without a
\* write error the shim foo-<container> exists.
C1_CollisionKeepsOriginal ==
    \A foo \in Range(batch.bins) :
        Exists(hostBin0, foo) =>
            /\ Exists(hostBin, foo) /\ hostBin[foo] = hostBin0[foo]
            /\ AttemptedOk("bin", foo, "collision") =>
                 /\ Exists(hostBin, AltBinName(foo, box))
                 /\ hostBin[AltBinName(foo, box)] = ShimContent(box, foo)

\* C9: when export_items returns, every binary and desktop entry of the batch
\* was attempted.
C9_EveryItemAttempted ==
    (pc = "exp_ret") =>
        /\ \A b \in Range(batch.bins) : Attempted("bin", b)
        /\ \A a \in Range(batch.apps) : Attempted("app", a)

---------------------------------------------------------------------------
(* Claims about the Snapshot-Diff Engine, checked under SpecPost *)

\* The packages the inventory lists with a version that the prior snapshot
\* (none when the file is missing) does not list with that same version.
NewOrUpgraded ==
    {p \in PkgSet :
        \E i \in 1..Len(inventory) :
            /\ inventory[i].n = p
            /\ inventory[i].v # NoVer
            /\ ~\E j \in 1..Len(snap0.lines) :
                   snap0.lines[j].n = p /\ snap0.lines[j].v = inventory[i].v}

InventoryObtained == errKind \notin {"ContainerRequired", "ClassificationFailure", "Query"}

\* C2: post-transaction calls export_items only for packages that are new or
\* upgraded with respect to the prior snapshot, once each, and a run that
\* obtained the inventory has called it for every one of them when it ends; a
\* package whose name and version are unchanged is never exported.
C2_ExportsExactlyNewOrUpgraded ==
    /\ Range(exportCalls) \subseteq NewOrUpgraded
    /\ \A i, j \in 1..Len(exportCalls) : i # j => exportCalls[i] # exportCalls[j]
    /\ (pc = "done" /\ InventoryObtained) => Range(exportCalls) = NewOrUpgraded

\* Witness of C2: before {A:1, B:1}, inventory {A:1, B:2, C:1}: B and C were
\* exported, A was not.
C2_Witness ==
    /\ pc = "done"
    /\ snap0 = File(<<Line("A", "1"), Line("B", "1")>>)
    /\ inventory = <<Line("A", "1"), Line("B", "2"), Line("C", "1")>>
    /\ Range(exportCalls) = {"B", "C"}

Versioned(lines) == {<<lines[i].n, lines[i].v>> : i \in {k \in 1..Len(lines) : lines[k].v # NoVer}}

\* C3: after every post-transaction run that completes, the persisted
\* snapshot holds the current inventory (the same packages at the same
\* versions).
C3_SnapshotEqualsInventory ==
    (pc = "done" /\ result = "ok") =>
        Versioned(ReadSnapshot(snapFile)) = Versioned(inventory)

\* The host path an attempt on a binary wrote, or meant to write.
PathUsed(e) == IF e.how = "collision" THEN AltBinName(e.item, box) ELSE e.item
\* The attempt was reported to the user as a collision or with a warning.
Warned(e) == e.how \in {"collision", "fallback"}

\* C15: after export was invoked twice in succession for the same binary of
\* the same container, every file the host binaries directory held before the
\* first invocation is unchanged, and the second invocation used the path
\* the first used or reported a warning.
C15_ReexportKeepsForeignFiles ==
    (prevRun.ran /\ pc = "done") =>
        /\ \A n \in DOMAIN hostBin0 : hostBin[n] = hostBin0[n]
        /\ \A i \in 1..Len(prevRun.log) : \A j \in 1..Len(exlog) :
              (prevRun.log[i].kind = "bin" /\ exlog[j].kind = "bin"
                 /\ prevRun.log[i].item = exlog[j].item)
              => (PathUsed(exlog[j]) = PathUsed(prevRun.log[i]) \/ Warned(exlog[j]))

\* A step of export_items that handled a binary whose host path did not
\* exist and for which the helper failed.
FallbackStep ==
    /\ pc = "exp_bin"
    /\ ~Exists(hostBin, Head(binsQ))
    /\ Len(exlog') = Len(exlog) + 1
    /\ exlog'[Len(exlog')].how = "fallback"

\* C16: when the host path of a binary does not exist and the helper fails,
\* the fallback shim for that binary is written at its plain host path (if the
\* write succeeds) and nothing else in the directory changes; neither the
\* helper failure nor a failed shim write ends the export, which goes on with
\* the next item.
C16_FallbackShimNonFatal ==
    [][FallbackStep =>
         LET b == Head(binsQ)
             e == exlog'[Len(exlog')]
         IN  /\ e.item = b
             /\ e.ok => (Exists(hostBin', b) /\ hostBin'[b] = ShimContent(box, b))
             /\ \A n \in DOMAIN hostBin' : n # b => (Exists(hostBin, n) /\ hostBin'[n] = hostBin[n])
             /\ exRes' # "err"
             /\ binsQ' = Tail(binsQ)
             /\ pc' = AfterItem(Tail(binsQ), appsQ)]_vars

\* C16 witness: the helper failed, the fallback shim could not be written, and
\* a later item of the batch was attempted all the same.
C16_Witness ==
    \E i \in 1..Len(exlog) :
        /\ exlog[i].how = "fallback"
        /\ ~exlog[i].ok
        /\ i < Len(exlog)

\* A step of export_items that handled a desktop entry whose basename the
\* host applications directory already held.
AppCollisionStep ==
    /\ pc = "exp_app"
    /\ Exists(hostApps, Head(appsQ))
    /\ Len(exlog') = Len(exlog) + 1

\* What the claim says is written for a line read from the container.
Prefixed(line, c) ==
    IF line.key = "Exec" /\ ~\E k \in 1..Len(line.val) : line.val[k] = EnterMarker
    THEN [line EXCEPT !.val = <<EnterMarker, c, "--">> \o line.val]
    ELSE line

\* C17: when the host applications directory already holds an entry of the
\* same basename, that entry is left unchanged, and the entry written under
\* the container-suffixed name holds the lines read from inside the container,
\* each Exec line without a container-entry invocation prefixed with the
\* container-entry command for that container, every other line as read.
C17_DesktopCollisionRewrite ==
    [][AppCollisionStep =>
         LET base == Head(appsQ)
             e == exlog'[Len(exlog')]
             alt == Append(base, box)
         IN  /\ hostApps'[base] = hostApps[base]
             /\ \A n \in DOMAIN hostApps' :
                   n # alt => (Exists(hostApps, n) /\ hostApps'[n] = hostApps[n])
             /\ e.ok =>
                   /\ Exists(hostApps', alt)
                   /\ Len(hostApps'[alt].lines) = Len(e.read)
                   /\ \A k \in 1..Len(e.read) : hostApps'[alt].lines[k] = Prefixed(e.read[k], box)
             /\ ~e.ok => hostApps' = hostApps]_vars

\* C17 witness: an entry with a bare Exec line, an Exec line already entering
\* container c0 and another line mentioning the invocation was rewritten.
C17_Witness ==
    \E i \in 1..Len(exlog) :
        /\ exlog[i].kind = "app"
        /\ exlog[i].how = "collision"
        /\ exlog[i].ok
        /\ Len(exlog[i].read) = 3
        /\ Exists(hostApps, Append(exlog[i].item, box))
        /\ hostApps[exlog[i].item] = hostApps0[exlog[i].item]

---------------------------------------------------------------------------
(* Claims about unexport, checked under SpecUninstall *)

\* unexport_items was called and has returned.
UnexportReturned == caller = "uninstall_pkg" /\ pc \in {"uninstall_inside", "done"}
BatchItems ==
    [i \in 1..Len(batch.bins) |-> [kind |-> "bin", item |-> batch.bins[i]]]
    \o [i \in 1..Len(batch.apps) |-> [kind |-> "app", item |-> batch.apps[i]]]

\* C18: unexport issues exactly one delete request per binary and per desktop
\* entry, in order, each in the convention the capability probe chose, whatever
\* the earlier requests did; unexport itself never makes the command fail.
C18_UnexportAttemptsAll ==
    /\ UnexportReturned =>
          /\ Len(exlog) = Len(BatchItems)
          /\ \A i \in 1..Len(exlog) :
                /\ exlog[i].kind = BatchItems[i].kind
                /\ exlog[i].item = BatchItems[i].item
                /\ exlog[i].how = "delete"
                /\ exlog[i].conv = (IF supports THEN "host" ELSE "inside")
    /\ (caller = "uninstall_pkg" /\ result = "err") => errKind = "Uninstall"

\* C18 witness: the first delete request could not be spawned, a later one
\* was made, and the command ended without error.
C18_Witness ==
    /\ UnexportReturned
    /\ pc = "done"
    /\ result = "ok"
    /\ Len(exlog) >= 2
    /\ exlog[1].st = "spawn_err"

UninstallEvents == SelectSeq(trace, LAMBDA e : e.ev = "uninstall")
UnexportStarted == caller = "uninstall_pkg"
HelperExportLeft(e) ==
    IF e.kind = "bin"
    THEN Exists(hostBin, e.item) /\ hostBin[e.item] = HelperBin(box, e.item)
    ELSE Exists(hostApps, HelperAppName(e.item, box))

---------------------------------------------------------------------------
(* Claims about container discovery, checked under SpecList *)

\* A listing attempt of the given kind ended with one of the given outcomes.
ListingEnded(kind, outs) ==
    \E i \in 1..Len(trace) : trace[i].ev = kind /\ trace[i].out \in outs

\* C19: when the listing tool cannot be spawned or exits non-zero, in the
\* structured attempt and in the plain-text attempt, discovery yields the
\* empty list and no error.
C19_DiscoveryNeverFails ==
    (ListingEnded("list_json", ListFailures) /\ ListingEnded("list_plain", ListFailures)) =>
        /\ result # "err"
        /\ boxes = <<>>

---------------------------------------------------------------------------
(* Claims about the Format Detector, checked under SpecDetect *)

HasExt(str) ==
    /\ Len(pkgFile.ext) = Len(str)
    /\ \A i \in 1..Len(str) : LowerChar(pkgFile.ext[i]) = str[i]
DebExt == HasExt(<<"d", "e", "b">>)
RpmExt == HasExt(<<"r", "p", "m">>)
Detected(format) == result = "ok" /\ fmt = format

\* C20 as stated, for a file that can be read: Deb when the first 8 bytes are
\* the ar signature or the extension is .deb in any letter case, Rpm when the
\* lead bytes are ED AB EE DB or the extension is .rpm, and FormatUnknown
\* otherwise.
C20_AsStated ==
    (pc = "done" /\ pkgFile.readable) =>
        /\ (pkgFile.lead = "ar" \/ DebExt) => Detected("deb")
        /\ (pkgFile.lead = "rpm" \/ RpmExt) => Detected("rpm")
        /\ ~(pkgFile.lead = "ar" \/ DebExt \/ pkgFile.lead = "rpm" \/ RpmExt)
              => (result = "err" /\ errKind = "FormatUnknown")

\* C20 amended: the extension decides first (.deb gives Deb, .rpm gives Rpm,
\* in any letter case); for any other name, a file that cannot be opened is
\* an I/O error, a readable file of at least 8 bytes is Rpm when its first
\* four bytes are ED AB EE DB and Deb when its first eight are the ar
\* signature, any other readable file is Deb when "debian-binary" lies within
\* its first 2048 bytes, and FormatUnknown otherwise.
C20_DetectByPriority ==
    pc = "done" =>
        IF DebExt THEN Detected("deb")
        ELSE IF RpmExt THEN Detected("rpm")
        ELSE IF ~pkgFile.readable THEN result = "err" /\ errKind = "Io"
        ELSE IF pkgFile.len >= HeaderLen /\ pkgFile.lead = "rpm" THEN Detected("rpm")
        ELSE IF pkgFile.len >= HeaderLen /\ pkgFile.lead = "ar" THEN Detected("deb")
        ELSE IF pkgFile.token >= 0 /\ pkgFile.token + TokenLen <= ScanLen THEN Detected("deb")
        ELSE result = "err" /\ errKind = "FormatUnknown"

\* C20 witness: a file without a telling extension, shorter than 8 bytes and
\* starting with the RPM lead, was not recognised.
C20_Witness ==
    /\ pc = "done"
    /\ ~DebExt /\ ~RpmExt
    /\ pkgFile.lead = "rpm"
    /\ pkgFile.len < HeaderLen
    /\ errKind = "FormatUnknown"

MagicOf(f) == IF f.len < HeaderLen \/ f.lead = "other" THEN NoneV
              ELSE IF f.lead = "rpm" THEN "rpm" ELSE "deb"
TokenInScan(f) == f.token >= 0 /\ f.token + TokenLen <= ScanLen

\* C24: the rules apply in priority order.  A .deb or .rpm extension decides
\* whatever the content and even when the file cannot be read; without such
\* an extension the magic bytes of a header of at least 8 bytes decide;
\* without those the token within the first 2048 bytes gives Deb; detection
\* fails only when no rule applies.
C24_PriorityOrder ==
    pc = "done" =>
        /\ DebExt => Detected("deb")
        /\ RpmExt => Detected("rpm")
        /\ (~DebExt /\ ~RpmExt /\ pkgFile.readable /\ MagicOf(pkgFile) # NoneV)
               => Detected(MagicOf(pkgFile))
        /\ (~DebExt /\ ~RpmExt /\ pkgFile.readable /\ MagicOf(pkgFile) = NoneV
               /\ TokenInScan(pkgFile)) => Detected("deb")
        /\ result = "err" =>
               /\ ~DebExt /\ ~RpmExt
               /\ ~pkgFile.readable \/ (MagicOf(pkgFile) = NoneV /\ ~TokenInScan(pkgFile))
\* a .deb name on a readable file that starts with the RPM lead
C24_Witness ==
    /\ pc = "done"
    /\ DebExt
    /\ pkgFile.readable /\ pkgFile.len >= HeaderLen /\ pkgFile.lead = "rpm"
    /\ Detected("deb")

---------------------------------------------------------------------------
(* `install` and `export` together: one of the two commands runs *)

InitInstallOrExport == InitInstall \/ InitExport
NextInstallOrExport == NextInstall \/ NextExport
SpecInstallOrExport == InitInstallOrExport /\ [][NextInstallOrExport]_vars

InUse(given, scanned_list) == IF given = <<>> THEN scanned_list ELSE given
SortedNoDup(list, order) == list = SubSeqOf(order, Range(list))
ExportStarted == caller \in {"install_like", "export_pkg"}

\* C26: the lists install and export hand to the export engine are the
\* supplied --bin list when it is not empty, else the scanned binaries, and
\* the supplied --app list when it is not empty, else the scanned desktop
\* entries; the scan results are sorted and free of duplicates, and no item
\* outside those lists is ever attempted.
C26_SuppliedListReplacesScan ==
    ExportStarted =>
        /\ batch.bins = InUse(cli.bin, scanned.bins)
        /\ batch.apps = InUse(cli.app, scanned.apps)
        /\ SortedNoDup(scanned.bins, BinNames) /\ SortedNoDup(scanned.apps, AppNames)
        /\ \A i \in 1..Len(exlog) :
               exlog[i].item \in (IF exlog[i].kind = "bin" THEN Range(batch.bins)
                                  ELSE Range(batch.apps))
\* a supplied binary was attempted although the scan found other binaries
C26_Witness ==
    /\ ExportStarted
    /\ cli.bin # <<>> /\ scanned.bins # <<>>
    /\ Range(cli.bin) \cap Range(scanned.bins) = {}
    /\ \E i \in 1..Len(exlog) : exlog[i].kind = "bin" /\ exlog[i].item = cli.bin[1]

---------------------------------------------------------------------------
(* Claims about the Container Selector, checked under SpecSelect *)

\* The candidate family set of section 4.4: the override, else by format.
CandidateFamilies ==
    IF cli.family # NoneV THEN {cli.family}
    ELSE IF fmt = "deb" THEN {"debian"} ELSE {"fedora", "opensuse"}
MatchingBoxes == {i \in 1..Len(boxes) : boxes[i].fam \in CandidateFamilies}

\* C10: with no explicit container name and exactly one discovered container
\* whose classification is in the candidate family set, the Selector returns
\* that container with that family, reads no standard input and creates no
\* container; unclassifiable containers do not count as matches.
C10_SingleMatchSelected ==
    (pc = "done" /\ cli.container = NoneV /\ Cardinality(MatchingBoxes) = 1) =>
        LET i == CHOOSE k \in MatchingBoxes : TRUE
        IN  /\ sel.ok
            /\ sel.name = boxes[i].name
            /\ sel.family = boxes[i].fam
            /\ ~sel.asked
            /\ sel.created = <<>>

\* Witness of C10: one match beside a container that could not be classified,
\* on a terminal with --create given.
C10_Witness ==
    /\ pc = "done"
    /\ cli.container = NoneV
    /\ cli.create
    /\ tty
    /\ Cardinality(MatchingBoxes) = 1
    /\ \E i \in 1..Len(boxes) : boxes[i].fam = ClassFail
    /\ sel.ok

\* The container of the requested name, as discovery lists it.
Requested == {i \in 1..Len(boxes) : boxes[i].name = cli.container}

\* C11: with an explicit container name, a name that is not among the
\* discovered containers fails with NotFound and nothing is created or
\* classified; a discovered one is returned with its classified family
\* whatever the format or family override, and fails if it cannot be classified.
C11_ExplicitContainer ==
    (pc = "done" /\ cli.container # NoneV) =>
        /\ sel.created = <<>>
        /\ ~sel.asked
        /\ IF Requested = {}
           THEN ~sel.ok /\ sel.err = "NotFound" /\ sel.classified = <<>>
           ELSE LET b == boxes[CHOOSE i \in Requested : TRUE]
                IN  IF b.fam = ClassFail
                    THEN ~sel.ok
                    ELSE sel.ok /\ sel.name = cli.container /\ sel.family = b.fam

\* C11 witness: the requested container is returned although its family is
\* in neither the override nor the format's candidate set.
C11_Witness ==
    /\ pc = "done"
    /\ cli.container # NoneV
    /\ cli.family # NoneV
    /\ Requested # {}
    /\ sel.ok
    /\ sel.family \notin CandidateFamilies

\* C12: with more than one matching container and no explicit name, the
\* Selector either returns one of the matches or fails with NoMatchFound; it
\* never creates a container, also under the auto-create policy.
C12_AmbiguityNeverCreates ==
    (pc = "done" /\ cli.container = NoneV /\ Cardinality(MatchingBoxes) > 1) =>
        /\ sel.created = <<>>
        /\ sel.ok \/ sel.err = "NoMatchFound"

\* The first family of the candidate list: the override, Debian for a deb,
\* Fedora for an rpm.
FirstCandidateFamily ==
    IF cli.family # NoneV THEN cli.family
    ELSE IF fmt = "deb" THEN "debian" ELSE "fedora"

\* The one creation request the Selector makes for the default container.
CreatesDefault ==
    LET d == default_box_for_family(FirstCandidateFamily)
    IN  /\ Len(sel.created) = 1
        /\ sel.created[1].name = d.name
        /\ sel.created[1].image = (IF cli.create_image # NoneV THEN cli.create_image ELSE d.image)
        /\ sel.created[1].ok => (sel.ok /\ sel.name = d.name)
        /\ ~sel.created[1].ok => ~sel.ok

\* C13: with zero matching containers, auto-create creates the default
\* container of the first candidate family without prompting and returns it;
\* without auto-create an interactive session asks and creates it only on
\* acceptance; otherwise the Selector fails with NoMatchFound and creates
\* nothing.  A failed creation is an error.
C13_ZeroMatches ==
    (pc = "done" /\ cli.container = NoneV /\ MatchingBoxes = {}) =>
        IF cli.create THEN ~sel.asked /\ CreatesDefault
        ELSE IF tty
        THEN /\ sel.asked
             /\ IF sel.created = <<>> THEN ~sel.ok /\ sel.err = "NoMatchFound"
                ELSE CreatesDefault
        ELSE ~sel.ok /\ sel.err = "NoMatchFound" /\ sel.created = <<>> /\ ~sel.asked

\* C13 witness: an rpm, no family override, containers of other families
\* only, --create with an overridden image: fedora-latest is created.
C13_Witness ==
    /\ pc = "done"
    /\ cli.container = NoneV
    /\ cli.family = NoneV
    /\ fmt = "rpm"
    /\ cli.create
    /\ cli.create_image # NoneV
    /\ boxes # <<>>
    /\ MatchingBoxes = {}
    /\ sel.ok
    /\ sel.name = "fedora-latest"

\* C14: every returned SelectedContainer carries the family that classifying
\* that container yields at the time it is returned.
C14_FamilyIsClassification ==
    (pc = "done" /\ sel.ok) => sel.family = sel.actual

---------------------------------------------------------------------------
(* Claims about the Install Pipeline (SpecInstall) *)

Events(kind) == {i \in 1..Len(trace) : trace[i].ev = kind}
EndedWith(kind) == pc = "done" /\ result = "err" /\ errKind = kind
NothingExported == exlog = <<>> /\ hostBin = hostBin0 /\ hostApps = hostApps0

\* The in-container size query printed a number other than the local size.
ReportedOtherSize(e) == e.reply.kind = "number" /\ e.reply.n # e.host_sz

\* C4: whenever the size reported from inside the container for the
\* transferred file is a number other than the local file's size N, the
\* pipeline has stopped with the fatal integrity error, and neither pre-scan,
\* execution nor export has run.
C4_SizeMismatchIsFatal ==
    \A i \in Events("size") :
        ReportedOtherSize(trace[i]) =>
            /\ EndedWith("IntegrityMismatch")
            /\ i = Len(trace)
            /\ NothingExported

\* C4 witness: the container reported more bytes than the local file has and
\* the run ended with the integrity error.
C4_Witness ==
    /\ EndedWith("IntegrityMismatch")
    /\ \E i \in Events("size") : trace[i].reply.n > trace[i].host_sz

AttemptsMade == Events("install")
InstallSucceeded == \E i \in AttemptsMade : trace[i].res = "ok"
InstallFailed == Cardinality(AttemptsMade) = 2 /\ ~InstallSucceeded

\* C5: a failure of selection, of the transfer, of the integrity check or of
\* installation ends the run with an error, and no later stage has run: no
\* event follows a failed transfer or integrity check, and nothing is exported
\* or notified without a successful installation.
C5_FailuresAreFatal ==
    /\ (sel # NoSel /\ ~sel.ok) => (EndedWith("Selection") /\ trace = <<>> /\ NothingExported)
    /\ \A i \in Events("copy") :
          ~trace[i].ok => (EndedWith("Transfer") /\ i = Len(trace) /\ NothingExported)
    /\ \A i \in Events("size") :
          ReportedOtherSize(trace[i]) =>
              (EndedWith("IntegrityMismatch") /\ i = Len(trace) /\ NothingExported)
    /\ InstallFailed =>
          /\ pc \in {"diag", "done"}
          /\ pc = "done" => EndedWith("InstallFailure")
    /\ ~InstallSucceeded => (Events("notify") = {} /\ NothingExported /\ caller = NoneV)
    /\ result = "err" => pc = "done"

\* C5 witness: both attempts failed, the second because the command could not
\* be started, and the run ended with the installation error.
C5_Witness ==
    /\ InstallFailed
    /\ EndedWith("InstallFailure")
    /\ \E i \in AttemptsMade : trace[i].res = "err"

\* C6: an interactive session runs the user variant first and the root
\* variant only if the user variant did not succeed; a non-interactive session
\* runs the root variant first and, only if it did not succeed, a user attempt
\* that cannot prompt for elevation; no attempt follows a successful one, and
\* the stage succeeds exactly when an attempted variant succeeds.
C6_ExecutionOrder ==
    LET n == Cardinality(AttemptsMade)
        at(k) == trace[CHOOSE i \in AttemptsMade :
                         Cardinality({j \in AttemptsMade : j <= i}) = k]
    IN  /\ n <= 2
        /\ n >= 1 => at(1).cmd.variant = (IF tty THEN "user" ELSE "root")
        /\ n = 2 => /\ at(1).res # "ok"
                    /\ at(2).cmd.variant = (IF tty THEN "root" ELSE "user")
                    /\ ~tty => ~CanPrompt(at(2).cmd)
        /\ pc \in {"post_install", "exp_bin", "exp_app", "exp_ret"} => InstallSucceeded
        /\ pc = "diag" => ~InstallSucceeded

DiagRerun == Events("diag")

\* C7: when both install variants failed, the root command and then the user
\* command are run once more in output-capturing mode, the error carries the
\* outputs of the two re-runs in that order, and the run ends with the
\* InstallFailure error whatever the re-runs did.
C7_DiagnosticsOnDoubleFailure ==
    (InstallFailed /\ pc = "done") =>
        /\ EndedWith("InstallFailure")
        /\ Cardinality(DiagRerun) = 2
        /\ DiagRerun = {Len(trace) - 1, Len(trace)}
        /\ trace[Len(trace) - 1].cmd = build_install_cmd_root(fmt)
        /\ trace[Len(trace)].cmd = build_install_cmd_user(fmt)
        /\ \A i \in DiagRerun : trace[i].mode = "capture"
        /\ errDetails = trace[Len(trace) - 1].out \o trace[Len(trace)].out

\* C7 witness: both variants failed, the root re-run then installed the
\* package, the user re-run printed output, and the run still ended in error.
C7_Witness ==
    /\ InstallFailed
    /\ EndedWith("InstallFailure")
    /\ Cardinality(DiagRerun) = 2
    /\ trace[Len(trace) - 1].installed
    /\ errDetails = <<"root", "user">>

\* C8: once installation has succeeded, no failure inside the export stage
\* makes the install command return an error.
C8_ExportFailureNotFatal ==
    (InstallSucceeded /\ pc = "done") => result = "ok"

---------------------------------------------------------------------------
(* Claims about the Family Classifier, checked under SpecClassify *)

\* the text of some line holds the pieces pat one after the other
Contains(text, pat) ==
    \E i \in 1..Len(text) : \E k \in 0..(Len(text[i]) - Len(pat)) :
        SubSeq(text[i], k + 1, k + Len(pat)) = pat
IdUbuntu == <<"ID=", "ubuntu">>
IdLikeDebian == <<"ID_LIKE=", DQ, "debian", DQ>>
Entered == pc = "done" /\ osRelease.status = "ok"
\* some ID= or ID_LIKE= line has a value that is one quote character
LoneQuoteValue(text) ==
    \E i \in 1..Len(text) :
        /\ starts_with(Trim(text[i]), "ID=") \/ starts_with(Trim(text[i]), "ID_LIKE=")
        /\ Trim(Tail(Trim(text[i]))) \in {<<DQ>>, <<SQ>>}

HasLine(text, l) == \E i \in 1..Len(text) : Trim(text[i]) = l
IdLineNos(text) == {i \in 1..Len(text) : starts_with(Trim(text[i]), "ID=")}
LastIdLineIs(text, l) ==
    \E i \in IdLineNos(text) : Trim(text[i]) = l /\ \A j \in IdLineNos(text) : j <= i

TokenSet(text) ==
    LET p == parse_os_release(text)
    IN  {p.id[i] : i \in 1..Len(p.id)} \cup {p.id_like[i] : i \in 1..Len(p.id_like)}
Names(ws) == {<<w>> : w \in ws}
FirstMatch(T) ==
    IF T \cap Names({"debian", "ubuntu"}) # {} THEN "debian"
    ELSE IF T \cap Names({"fedora", "rhel", "centos"}) # {} THEN "fedora"
    ELSE IF T \cap Names({"opensuse", "sles", "suse"}) # {} THEN "opensuse"
    ELSE IF T \cap Names({"arch", "manjaro", "endeavouros"}) # {} THEN "arch"
    ELSE ClassFail

C40_ParsingIsTotal ==
    pc = "done" =>
        /\ result \in {"ok", "err"}
        /\ boxFamily \in Families \cup {ClassFail}

---------------------------------------------------------------------------
(* Claims about the persisted files, checked under SpecConcurrent *)

AllDone == \A i \in Invocations : procs[i].pc = "done"
BothWrote(f) == lastWrite[f].writers = Invocations

\* C22: once two invocations have both written the same file, the file holds
\* exactly what the last of the two writes wrote.
C22_LastWriterWins ==
    \A f \in {"config", "snapshot"} :
        (pc = "concurrent" /\ AllDone /\ BothWrote(f)) => files[f] = File(lastWrite[f].content)

---------------------------------------------------------------------------
(* Claims about the plain-text listing parser, checked under SpecParse *)

Columns(row) == LET raw == split(Trim(row), PIPE) IN [i \in 1..Len(raw) |-> Trim(raw[i])]
Tokens(row) == split_whitespace(row)
IsPipeRow(row) == \E i \in 1..Len(row) : row[i] = PIPE
HasColumn(row, word) == \E i \in 1..Len(Columns(row)) : eq_ignore_ascii_case(Columns(row)[i], word)
\* a row with an ID and a NAME column
PipeHeader(row) == IsPipeRow(row) /\ HasColumn(row, "id") /\ HasColumn(row, "name")
\* a row made only of '-' and '+' between its pipes
DashRow(row) == \A i \in 1..Len(row) : row[i] \in DashWords \cup {PIPE, SP}
SawPipeHeaderBefore(i) == \E j \in 1..(i - 1) : PipeHeader(listing[j])
\* header rows of whitespace-separated output: the text starts with NAME or
\* +---, contains CONTAINER ID, or is just "id"; or, for a row read by its
\* first column, that column is NAME or Created
TextHeader(row) ==
    LET t == Trim(row)
    IN  \/ starts_with_text(t, "NAME") \/ starts_with_text(t, "+---")
        \/ contains_container_id(t) \/ eq_ignore_ascii_case(t, "id")
FirstColumnHeader(row) ==
    eq_ignore_ascii_case(Tokens(row)[1], "name") \/ eq_ignore_ascii_case(Tokens(row)[1], "created")
IdThenName(i) ==
    /\ Tokens(listing[i]) # <<>>
    /\ SawPipeHeaderBefore(i)
    /\ TextLen(Tokens(listing[i])[1]) >= 6
    /\ Len(Tokens(listing[i])) >= 2

\* the records of whitespace-separated row i
WhitespaceRecords(i) ==
    LET row == listing[i]
    IN  IF Tokens(row) = <<>> \/ TextHeader(row) THEN <<>>
        ELSE IF IdThenName(i) THEN <<DistroBox(Tokens(row)[2], Get(Tokens(row), 4))>>
        ELSE IF FirstColumnHeader(row) THEN <<>>
        ELSE <<DistroBox(Tokens(row)[1], Get(Tokens(row), 2))>>
\* the records of pipe row i when the rows in skip give none
PipeRecords(i, skip) ==
    LET row == listing[i]
    IN  IF skip THEN <<>> ELSE <<DistroBox(Columns(row)[2], Get(Columns(row), 4))>>
EmptyName(row) == Columns(row)[2] = <<>>
NameReadsNAME(row) == eq_ignore_ascii_case(Columns(row)[2], "name")

RecordsAsStated(i) ==
    IF IsPipeRow(listing[i])
    THEN PipeRecords(i, PipeHeader(listing[i]) \/ DashRow(listing[i]) \/ EmptyName(listing[i]))
    ELSE WhitespaceRecords(i)
RecordsAmended(i) ==
    IF IsPipeRow(listing[i])
    THEN PipeRecords(i, \/ PipeHeader(listing[i]) \/ DashRow(listing[i])
                        \/ EmptyName(listing[i]) \/ NameReadsNAME(listing[i]))
    ELSE WhitespaceRecords(i)

\* C25 as stated: the parser returns, row by row, no record for a pipe row
\* that is a header (an ID and a NAME column), is made of '-' and '+' or has
\* an empty name, and column 2 / column 4 for any other pipe row; for a
\* whitespace row it skips headers and reads column 1 / column 2, or
\* column 2 / column 4 after a pipe header when the first token has at least
\* 6 characters and a second token exists.
C25_AsStated ==
    pc = "done" => parsed = Concat([i \in 1..Len(listing) |-> RecordsAsStated(i)])

\* C25 amended: the same, and a pipe row whose name column reads NAME (in any
\* letter case) gives no record either.
C25_OneRecordPerDataRow ==
    pc = "done" => parsed = Concat([i \in 1..Len(listing) |-> RecordsAmended(i)])
\* a long-ID row after a pipe header was read as ID then name
C25_Witness ==
    /\ pc = "done"
    /\ Len(listing) = 2
    /\ PipeHeader(listing[1])
    /\ ~IsPipeRow(listing[2]) /\ IdThenName(2)
    /\ parsed = <<DistroBox(<<"box1">>, <<(<<"img">>)>>)>>

---------------------------------------------------------------------------
(* Claims about the install commands, checked under SpecShell *)

\* C27: the install command run inside the user variant's elevation chain
\* succeeds exactly when the root variant's install command succeeds, for
\* every format, set of tools present and set of failing steps.
C27_UserWrapsSameCommand ==
    pc = "done" => (shUser.inner.ok = shRoot.ok)

Position(tr, what) == {i \in 1..Len(tr) : tr[i].what = what}
RanStep(tr, what) == Position(tr, what) # {}
HasApt == {"apt-get", "apt"} \cap shEnv.present # {}
Chosen == IF "dnf" \in shEnv.present THEN "dnf"
          ELSE IF "zypper" \in shEnv.present THEN "zypper" ELSE "rpm"

\* C28: the root command for a .deb runs the index update (when an apt tool
\* is present) before anything else, then dpkg -i unless the update failed,
\* and the fix-up exactly when dpkg -i ran and failed and an apt tool is
\* present; a failed update ends the command in failure after that one tool.
\* For an .rpm it runs exactly one installer, dnf if present, else zypper if
\* present, else rpm, and fails exactly when that installer fails.
C28_RootCommandOrder ==
    pc # "sh_root" =>
        LET tr == shRoot.trace
        IN  IF shEnv.fmt = "deb"
            THEN /\ RanStep(tr, "update") = HasApt
                 /\ RanStep(tr, "update") => Position(tr, "update") = {1}
                 /\ RanStep(tr, "install") = ~(HasApt /\ "update" \in shEnv.failing)
                 /\ RanStep(tr, "fix") =
                       (RanStep(tr, "install") /\ "lowlevel" \in shEnv.failing /\ HasApt)
                 /\ \A i \in Position(tr, "install"), j \in Position(tr, "fix") : i < j
                 /\ \A i \in Position(tr, "update"), j \in Position(tr, "install") : i < j
                 /\ (HasApt /\ "update" \in shEnv.failing) => (~shRoot.ok /\ Len(tr) = 1)
            ELSE /\ tr = <<Ran(Chosen, "install")>>
                 /\ shRoot.ok = ("install" \notin shEnv.failing)
\* the index update failed and nothing else was run
C28_Witness ==
    /\ pc = "done"
    /\ shEnv.fmt = "deb"
    /\ shRoot.trace = <<Ran("apt", "update")>>
    /\ ~shRoot.ok
    /\ "lowlevel" \notin shEnv.failing

---------------------------------------------------------------------------
(* Claims about the generated shims, checked under SpecShim *)

\* the snapshot, manager and post-transaction commands run so far, in order
RECURSIVE Kept(_)
Kept(tr) ==
    IF tr = <<>> THEN <<>>
    ELSE IF Head(tr).cmd \in {"snapshot", "pm", "post-transaction"}
    THEN <<Head(tr).cmd>> \o Kept(Tail(tr))
    ELSE Kept(Tail(tr))
ManagerRan == \E i \in 1..Len(shimTrace) : shimTrace[i].cmd = "pm"

\* C29: a shim that ran the manager and has exited ran, for a first argument
\* other than --version, -v, --help and -h, the snapshot, then the manager,
\* then post-transaction, and for one of those flags the manager alone;
\* either way it exited with the manager's status.
C29_SnapshotAroundManager ==
    (pc = "done" /\ ManagerRan) =>
        /\ Kept(shimTrace) = (IF shimRun.arg \in ReadOnlyFlags THEN <<"pm">>
                              ELSE <<"snapshot", "pm", "post-transaction">>)
        /\ \A i \in 1..Len(shimTrace) : shimTrace[i].cmd = "pm" => shimExit = shimTrace[i].status

---------------------------------------------------------------------------
(* Claims about shim generation, checked under SpecGenerate *)

\* C30: every file the bin directory held when generate_shims started is
\* still there with the content it had.
C30_NeverOverwrites ==
    \A n \in DOMAIN binDir0 : Exists(binDir, n) /\ binDir[n] = binDir0[n]


\* C31: when generate_shims has finished, every manager of a family with a
\* configured default container that the host lacks outside the bin directory
\* and that had no file at its unsuffixed name holds, at the unsuffixed name,
\* the shim bound to that default container.
C31_UnsuffixedPreferred ==
    (pc = "done" /\ result = "ok") =>
        \A fam_key \in DOMAIN pmDefaults : \A mgr \in Range(ManagersOf(fam_key)) :
            (~host_has_cmd_outside_bindir(mgr) /\ ~Exists(binDir0, <<mgr>>)) =>
                /\ Exists(binDir, <<mgr>>)
                /\ binDir[<<mgr>>] = PmShim(pmDefaults[fam_key], mgr)

---------------------------------------------------------------------------
(* Further claims about the Install Pipeline, checked under SpecInstall *)

SizeVerified(e) ==
    e.ev = "size" /\ e.reply.kind = "number" /\ e.reply.n = e.host_sz

\* C32: an install command is run only after a size query of the transferred
\* file gave a number and that number equals the local file's size.
C32_ExecutionAfterVerifiedSize ==
    \A i \in 1..Len(trace) :
        trace[i].ev = "install" => \E j \in 1..(i - 1) : SizeVerified(trace[j])


RunsInstalled(e) ==
    \/ e.ev = "install" /\ e.res = "ok"
    \/ e.ev = "diag" /\ e.installed

\* C33: when the pipeline has ended with InstallFailure, none of the install
\* commands it ran, the output-capturing re-runs included, completed
\* successfully inside the container.
C33_FailureLeavesNothingInstalled ==
    (pc = "done" /\ errKind = "InstallFailure") =>
        /\ ~pkgInstalled
        /\ \A i \in 1..Len(trace) : ~RunsInstalled(trace[i])


ContainerCreated == \E i \in 1..Len(sel.created) : sel.created[i].ok

\* C34: with --dry-run no container is created, no file is transferred, no
\* install command runs and the host directories stay as they were.
C34_DryRunChangesNothing ==
    cli.dry_run =>
        /\ ~ContainerCreated
        /\ trace = <<>>
        /\ ~pkgInstalled
        /\ exlog = <<>>
        /\ hostBin = hostBin0
        /\ hostApps = hostApps0

---------------------------------------------------------------------------
(* Claims about export followed by unexport or by a second export *)

ExportThenUnexport ==
    /\ pc = "done"
    /\ prevRun.ran
    /\ prevRun.result = "ok"
    /\ caller = "uninstall_pkg"
    /\ batch = midBatch
AllDeleted == \A i \in 1..Len(exlog) : exlog[i].how = "delete" => exlog[i].ok

\* C35: when the items a completed export was given have been unexported and
\* every delete request succeeded, the host directories hold no file that was
\* not there before the export.
C35_UnexportRemovesExports ==
    (ExportThenUnexport /\ AllDeleted) =>
        /\ DOMAIN hostBin \subseteq DOMAIN hostBin0
        /\ DOMAIN hostApps \subseteq DOMAIN hostApps0

ExportedTwice ==
    /\ pc = "done"
    /\ prevRun.ran
    /\ prevRun.result = "ok"
    /\ result = "ok"
    /\ caller = "export_pkg"
    /\ batch = midBatch

\* C36: two completed exports of the same items leave the host directories
\* with the files the first export left.
C36_SecondExportAddsNothing ==
    ExportedTwice =>
        /\ DOMAIN hostBin = DOMAIN midBin
        /\ DOMAIN hostApps = DOMAIN midApps

---------------------------------------------------------------------------
(* Claims about two shim runs on one container, checked under SpecShims *)

BothRunsDone == \A self \in Invocations : runs[self].pc = "done"
\* every snapshot was written and every post-transaction got the inventory
QueriesWorked ==
    \A self \in Invocations : runs[self].snap = "ok" /\ runs[self].post = "ok"

C39_FailedQueryKeepsSnapshot ==
    \A i \in 1..Len(snapLog) :
        snapLog[i].query # "ok" => ReadSnapshot(snapLog[i].new) = ReadSnapshot(snapLog[i].old)

====
